---- MODULE Spec2Model ----
(***************************************************************************)
(* Model of the MTB time tracker: the Timer state machine                  *)
(* (src/core/timer.py), Category and Session (src/core/category.py,        *)
(* src/core/session.py) and the entry reconciliation handlers of the main  *)
(* window (src/ui/main_window.py, src/ui/category_widget.py).              *)
(*                                                                         *)
(* Encoding.                                                               *)
(*   - Optional values (Python None / a value) are sequences of length 0   *)
(*     or 1: None is <<>>, a value v is <<v>>.                             *)
(*   - datetime values are integer clock readings, timedelta values are    *)
(*     integer differences of readings (Python's are unbounded for the     *)
(*     ranges met here, so no width is modelled).                          *)
(*   - Text typed by the operator and participant ids are sequences of     *)
(*     one-character strings, so that str.strip() is computed.             *)
(*   - An object reference is the object's identity: an entry is referred  *)
(*     to by its entry_id, a Category by its index in session.categories   *)
(*     (Categories are only ever appended).                                *)
(***************************************************************************)
EXTENDS Integers, Sequences, FiniteSets, TLC

VARIABLES
    now,            \* the wall clock read by datetime.now()
    categories,     \* MainWindow.session.categories
    last_entries,   \* MainWindow.last_entries, the undo stack
    tables,         \* per CategoryWidget, the entry ids its entries_table shows
    next_id,        \* source of fresh entry ids (uuid.uuid4())
    workbook,       \* the sheets export_to_excel wrote last, None before
    session_name,   \* Session.session_name, None for ""
    created_at,     \* Session.created_at
    disk,           \* the session files and the backup files on disk, by name
    save_pc,        \* the save calls in flight: who called Session.save, innermost last
    report,         \* what the last save or load told the operator or the console
    duration        \* a timedelta, the text written for it and what was read back

\* The variables of saving and loading.
persistence == <<session_name, created_at, disk, save_pc, report, duration>>

vars == <<now, categories, last_entries, tables, next_id, workbook, persistence>>

\* ------------------------------------------------------------------ bounds

\* The wall clock advances up to MaxTime.
MaxTime == 1

\* At most MaxCats Categories are loaded.
MaxCats == 2

\* At most MaxEntries entries are ever submitted under Spec.
MaxEntries == 1

\* At most MaxLedger entries are ever submitted under LedgerSpec.
MaxLedger == 2

\* The wall clock advances up to MaxClock under TimerSpec.
MaxClock == 4

\* At most MaxSubmissions entries are ever submitted under UndoSpec.
MaxSubmissions == 11

\* At most MaxEntrySubmits entries are ever submitted under EntrySpec.
MaxEntrySubmits == 2

\* The wall clock advances up to MaxOrderTime under OrderSpec.
MaxOrderTime == 2

\* Durations of up to MaxDays whole days (and a part of a day) are written
\* and read back under DurationSpec.
MaxDays == 2

\* The wall clock advances up to MaxPersistTime under PersistSpec.
MaxPersistTime == 1

\* At most MaxPersistEntries entries are ever submitted under PersistSpec.
MaxPersistEntries == 1

\* The wall clock advances up to MaxLiveTime under LiveSpec.
MaxLiveTime == 4

\* In TripSpec: the clock readings of a day, and the days after the first.
MaxTripTime == 1
MaxTripDays == 1

\* In TripSpec: saves and restarts go on until there are more backup files.
MaxTripBackups == 0

\* Clock readings per second under ExportSpec (the unit of now and of every
\* elapsed_time there), so that elapsed times have a sub-second part.
TicksPerSecond == 2

\* Elapsed times of exported entries range over 0..MaxElapsed readings.
MaxElapsed == 3

\* The first and the second Category hold at most this many entries under
\* ExportSpec.
MaxFirstLedger == 3
MaxSecondLedger == 1

\* ------------------------------------------------------ program constants

\* main_window.py:252, the undo stack keeps the last 10 records.
UndoCapacity == 10

\* main_window.py:301, the recent-entries table shows 20 rows.
RecentRows == 20

\* category_widget.py:144, a Category's table shows its last 15 entries.
WidgetRows == 15

\* ------------------------------------------------------------- optionals

None == <<>>

Some(v) == <<v>>

\* ------------------------------------------------------------------ Timer

NOT_STARTED == "not_started"

RUNNING == "running"

STOPPED == "stopped"

PAUSED == "paused"

\* Timer.__init__
Timer == [state |-> NOT_STARTED,
          start_time |-> None,
          stop_time |-> None,
          pause_time |-> None,
          accumulated_pause_duration |-> 0]

\* Timer.start with the pause measured from start_time instead of pause_time.
start_pause_from_start_time(t, clk) ==
    IF t.state = NOT_STARTED
    THEN [t EXCEPT !.start_time = Some(clk), !.state = RUNNING]
    ELSE IF t.state = PAUSED
    THEN [t EXCEPT !.accumulated_pause_duration = @ + (clk - t.start_time[1]),
                   !.pause_time = None,
                   !.state = RUNNING]
    ELSE t

\* Timer.start with "=" for "+=": a resume forgets the pauses before.
start_forgets_earlier_pauses(t, clk) ==
    IF t.state = NOT_STARTED
    THEN [t EXCEPT !.start_time = Some(clk), !.state = RUNNING]
    ELSE IF t.state = PAUSED
    THEN [t EXCEPT !.accumulated_pause_duration = clk - t.pause_time[1],
                   !.pause_time = None,
                   !.state = RUNNING]
    ELSE t

\* Timer.start, called when the clock reads clk
start(t, clk) ==
    IF t.state = NOT_STARTED
    THEN [t EXCEPT !.start_time = Some(clk), !.state = RUNNING]
    ELSE IF t.state = PAUSED
    THEN LET t1 == IF t.pause_time # None
                   THEN [t EXCEPT !.accumulated_pause_duration =
                                        @ + (clk - t.pause_time[1]),
                                  !.pause_time = None]
                   ELSE t
         IN  [t1 EXCEPT !.state = RUNNING]
    ELSE t

\* Timer.stop that also stops a paused Timer.
stop_also_paused(t, clk) ==
    IF t.state \in {RUNNING, PAUSED}
    THEN [t EXCEPT !.stop_time = Some(clk), !.state = STOPPED]
    ELSE t

\* Timer.stop
stop(t, clk) ==
    IF t.state = RUNNING
    THEN [t EXCEPT !.stop_time = Some(clk), !.state = STOPPED]
    ELSE t

\* Timer.pause
pause(t, clk) ==
    IF t.state = RUNNING
    THEN [t EXCEPT !.pause_time = Some(clk), !.state = PAUSED]
    ELSE t

\* Timer.reset without its last line: the pauses are kept.
reset_keeps_pauses(t) ==
    [t EXCEPT !.state = NOT_STARTED,
              !.start_time = None,
              !.stop_time = None,
              !.pause_time = None]

\* Timer.reset
reset(t) ==
    [t EXCEPT !.state = NOT_STARTED,
              !.start_time = None,
              !.stop_time = None,
              !.pause_time = None,
              !.accumulated_pause_duration = 0]

\* Timer.get_elapsed_time without the clamp to zero.
get_elapsed_time_unclamped(t, at_time, clk) ==
    IF t.state = NOT_STARTED THEN 0
    ELSE IF t.start_time = None THEN 0
    ELSE LET end_time ==
                 IF at_time # None THEN at_time[1]
                 ELSE IF t.state = STOPPED /\ t.stop_time # None
                      THEN t.stop_time[1]
                 ELSE IF t.state = PAUSED /\ t.pause_time # None
                      THEN t.pause_time[1]
                 ELSE clk
         IN  end_time - t.start_time[1] - t.accumulated_pause_duration

\* Timer.get_elapsed_time reading the clock whatever the state, without the
\* branches that freeze the reading at stop_time and pause_time.
get_elapsed_time_live(t, at_time, clk) ==
    IF t.state = NOT_STARTED THEN 0
    ELSE IF t.start_time = None THEN 0
    ELSE LET end_time == IF at_time # None THEN at_time[1] ELSE clk
             elapsed == end_time - t.start_time[1]
                            - t.accumulated_pause_duration
         IN  IF elapsed > 0 THEN elapsed ELSE 0

\* Timer.get_elapsed_time(at_time), called when the clock reads clk;
\* at_time is None when the argument is omitted.
get_elapsed_time(t, at_time, clk) ==
    IF t.state = NOT_STARTED THEN 0
    ELSE IF t.start_time = None THEN 0
    ELSE LET end_time ==
                 IF at_time # None THEN at_time[1]
                 ELSE IF t.state = STOPPED /\ t.stop_time # None
                      THEN t.stop_time[1]
                 ELSE IF t.state = PAUSED /\ t.pause_time # None
                      THEN t.pause_time[1]
                 ELSE clk
             elapsed == end_time - t.start_time[1]
                            - t.accumulated_pause_duration
         IN  IF elapsed > 0 THEN elapsed ELSE 0

\* Timer.is_running
is_running(t) == t.state = RUNNING

\* ----------------------------------------------------------------- strings

\* The characters str.strip() removes that the inputs below contain.
Whitespace == {" "}

RECURSIVE lstrip(_)
\* str.lstrip, the leading half of str.strip()
lstrip(s) ==
    IF s # <<>> /\ Head(s) \in Whitespace THEN lstrip(Tail(s)) ELSE s

RECURSIVE rstrip(_)
\* str.rstrip, the trailing half of str.strip()
rstrip(s) ==
    IF s # <<>> /\ s[Len(s)] \in Whitespace
    THEN rstrip(SubSeq(s, 1, Len(s) - 1))
    ELSE s

\* str.strip() left out: the text as typed.
strip_nothing(s) == s

\* str.strip()
strip(s) == rstrip(lstrip(s))

\* What the operator may type into the input field, an edited table cell or
\* the edit dialog: nothing, blanks, ids with and without surrounding blanks.
RawInputs ==
    { <<>>, <<" ">>, <<" ", "1", " ">>, <<"2">>, <<"9">> }

\* ------------------------------------------------------ Roster / Category

\* One value of Category.participants, as _load_from_dataframe builds it.
Participant(id, fn, ln, tm, by, g) ==
    [id |-> id, first_name |-> fn, last_name |-> ln, team |-> tm,
     birth_year |-> by, gender |-> g]

\* A roster holding id 1 only.
RosterA ==
    (<<"1">> :> Participant(<<"1">>, "Alice", "Smith", "", "1990", "F"))

\* A roster holding ids 1 and 2 (id 1 under another identity).
RosterB ==
    (<<"1">> :> Participant(<<"1">>, "Bob", "Jones", "RC", "1985", "M")) @@
    (<<"2">> :> Participant(<<"2">>, "Carol", "", "RC", "", "F"))

\* What CSVLoaderDialog hands to load_category: a stripped, non-empty
\* Category name and the roster built from the chosen file. Nothing stops
\* the operator from loading the same file under the same name twice.
LoadInputs ==
    { [name |-> "A", participants |-> RosterA],
      [name |-> "B", participants |-> RosterB] }

\* Category.__init__ with a dataframe
Category(name, participants) ==
    [name |-> name,
     participants |-> participants,
     timer |-> Timer,
     entries |-> <<>>]

\* Category.has_participant
has_participant(c, participant_id) ==
    strip(participant_id) \in DOMAIN c.participants

\* Category.get_participant_data: None or the roster record
get_participant_data(c, participant_id) ==
    IF strip(participant_id) \in DOMAIN c.participants
    THEN Some(c.participants[strip(participant_id)])
    ELSE None

\* Category.add_entry
add_entry(c, entry) == [c EXCEPT !.entries = Append(@, entry)]

\* Category.get_finished_count
get_finished_count(c) ==
    Cardinality({i \in 1..Len(c.entries) : ~c.entries[i].is_dnf})

\* Category.get_recent_entries: self.entries[-count:]
get_recent_entries(c, count) ==
    IF c.entries # <<>>
    THEN SubSeq(c.entries,
                IF Len(c.entries) > count THEN Len(c.entries) - count + 1 ELSE 1,
                Len(c.entries))
    ELSE <<>>

\* list.reverse()
Reverse(s) == [i \in 1..Len(s) |-> s[Len(s) + 1 - i]]

\* ---------------------------------------------------------------- Session

RECURSIVE find_from(_, _, _)
\* The loop of find_participant_category from index i on.
find_from(participant_id, cats, i) ==
    IF i > Len(cats) THEN None
    ELSE IF has_participant(cats[i], participant_id) THEN Some(i)
    ELSE find_from(participant_id, cats, i + 1)

\* find_participant_category returning the last Category, in Session order,
\* whose roster holds the id, instead of the first.
find_participant_category_last(participant_id, cats) ==
    LET holders == {i \in 1..Len(cats) :
                        has_participant(cats[i], participant_id)}
    IN  IF holders = {} THEN None
        ELSE Some(CHOOSE i \in holders : \A j \in holders : j <= i)

\* utils.validation.find_participant_category: the first Category, in
\* Session order, whose roster holds the stripped id; None if there is none.
find_participant_category(participant_id, cats) ==
    find_from(strip(participant_id), cats, 1)

RECURSIVE get_category_from(_, _, _)
\* The loop of Session.get_category from index i on.
get_category_from(cats, category_name, i) ==
    IF i > Len(cats) THEN None
    ELSE IF cats[i].name = category_name THEN Some(i)
    ELSE get_category_from(cats, category_name, i + 1)

\* Session.get_category: the first Category with the name, or None
get_category(cats, category_name) == get_category_from(cats, category_name, 1)

RECURSIVE first_running_from(_, _)
\* next(c for c in categories if c.timer.is_running()) from index i on
first_running_from(cats, i) ==
    IF i > Len(cats) THEN None
    ELSE IF is_running(cats[i].timer) THEN Some(i)
    ELSE first_running_from(cats, i + 1)

RECURSIVE find_entry_from(_, _, _)
\* next(e for e in entries if e.entry_id == entry_id): its position, or None
find_entry_from(entries, entry_id, i) ==
    IF i > Len(entries) THEN None
    ELSE IF entries[i].entry_id = entry_id THEN Some(i)
    ELSE find_entry_from(entries, entry_id, i + 1)

\* [e for e in entries if e.entry_id != entry_id]
without_entry(entries, entry_id) ==
    SelectSeq(entries, LAMBDA e : e.entry_id # entry_id)

RECURSIVE list_remove_from(_, _, _)
\* list.remove(x): drops the first element equal to x (from index i on)
list_remove_from(entries, x, i) ==
    IF i > Len(entries) THEN entries
    ELSE IF entries[i] = x
    THEN SubSeq(entries, 1, i - 1) \o SubSeq(entries, i + 1, Len(entries))
    ELSE list_remove_from(entries, x, i + 1)

RECURSIVE all_entries_from(_, _)
\* The concatenation loop of Session.get_all_entries
all_entries_from(cats, i) ==
    IF i > Len(cats) THEN <<>>
    ELSE cats[i].entries \o all_entries_from(cats, i + 1)

RECURSIVE sorted_desc(_)
\* sorted(..., key=finish_time, reverse=True): stable, equal keys keep
\* their order
sorted_desc(s) ==
    IF s = <<>> THEN <<>>
    ELSE LET rest == sorted_desc(SubSeq(s, 1, Len(s) - 1))
             x == s[Len(s)]
             k == Cardinality({i \in 1..Len(rest) :
                                   rest[i].finish_time >= x.finish_time})
         IN  SubSeq(rest, 1, k) \o <<x>> \o SubSeq(rest, k + 1, Len(rest))

\* Session.get_all_entries
get_all_entries(cats) == sorted_desc(all_entries_from(cats, 1))

\* ----------------------------------------------------------------- export

\* FinishEntry.format_elapsed_time: the text HH:MM:SS, written as the three
\* numbers between its colons; the sub-second part is dropped.
format_elapsed_time(entry) ==
    LET total_seconds == entry.elapsed_time \div TicksPerSecond
    IN  <<total_seconds \div 3600,
          (total_seconds % 3600) \div 60,
          total_seconds % 60>>

\* excel_export._parse_time_to_seconds: the seconds the text stands for, or
\* None for float('inf') when the text has no three parts.
_parse_time_to_seconds(time_str) ==
    IF Len(time_str) < 3 THEN None
    ELSE Some(time_str[1] * 3600 + time_str[2] * 60 + time_str[3])

RECURSIVE insert_by_elapsed(_, _)
\* One step of the stable sort: e goes behind every entry whose elapsed_time
\* is not greater than its own.
insert_by_elapsed(sorted, e) ==
    IF sorted = <<>> THEN <<e>>
    ELSE IF sorted[Len(sorted)].elapsed_time <= e.elapsed_time
    THEN Append(sorted, e)
    ELSE Append(insert_by_elapsed(SubSeq(sorted, 1, Len(sorted) - 1), e),
                sorted[Len(sorted)])

RECURSIVE sorted_by_elapsed(_)
\* sorted(entries, key=lambda e: e.elapsed_time), a stable sort
sorted_by_elapsed(entries) ==
    IF entries = <<>> THEN <<>>
    ELSE insert_by_elapsed(
             sorted_by_elapsed(SubSeq(entries, 1, Len(entries) - 1)),
             entries[Len(entries)])

\* Category.get_sorted_entries
get_sorted_entries(c) == sorted_by_elapsed(c.entries)

\* The value of a Rank cell: a number, or a label.
RankNumber(n) == [number |-> n, label |-> ""]
RankLabel(text) == [number |-> 0, label |-> text]

\* One row of a sheet: the Category, Rank, ID and Elapsed Time columns (the
\* identity, Finish Time and Notes columns are left out), with the id of
\* the entry the row was built from.
Row(category_name, rank, entry) ==
    [Category |-> category_name,
     Rank |-> rank,
     ID |-> entry.participant_id,
     Elapsed_Time |-> format_elapsed_time(entry),
     entry_id |-> entry.entry_id]

\* excel_export._create_category_dataframe: the rows of a Category's sheet
_create_category_dataframe(category) ==
    LET sorted_entries == get_sorted_entries(category)
        numbered == [rank \in 1..Len(sorted_entries) |->
                        <<rank, sorted_entries[rank]>>]
        ranked == SelectSeq(numbered, LAMBDA x : ~x[2].is_dnf)
        dnf == SelectSeq(sorted_entries, LAMBDA e : e.is_dnf)
    IN  [r \in 1..Len(ranked) |->
            Row(category.name, RankNumber(ranked[r][1]), ranked[r][2])]
        \o [r \in 1..Len(dnf) |->
            Row(category.name, RankLabel("DNF"), dnf[r])]

RECURSIVE index_from(_, _, _)
\* list.index(x): the 0-based position of the first element equal to x
index_from(list, x, i) ==
    IF list[i] = x THEN i - 1 ELSE index_from(list, x, i + 1)

\* The rank _create_combined_dataframe computes for an entry of a Category.
combined_rank(category, entry) ==
    IF entry.is_dnf THEN RankLabel("DNF")
    ELSE LET sorted_entries ==
                 SelectSeq(get_sorted_entries(category), LAMBDA e : ~e.is_dnf)
         IN  IF \E i \in 1..Len(sorted_entries) : sorted_entries[i] = entry
             THEN RankNumber(index_from(sorted_entries, entry, 1) + 1)
             ELSE RankLabel("DNF")

RECURSIVE combined_rows_from(_, _)
\* The rows _create_combined_dataframe collects, Category by Category in
\* Session order and entry by entry in ledger order, from Category i on.
combined_rows_from(cats, i) ==
    IF i > Len(cats) THEN <<>>
    ELSE [p \in 1..Len(cats[i].entries) |->
             Row(cats[i].name, combined_rank(cats[i], cats[i].entries[p]),
                 cats[i].entries[p])]
         \o combined_rows_from(cats, i + 1)

\* The sort key a <= b, None standing for float('inf').
key_le(a, b) == b = None \/ (a # None /\ a[1] <= b[1])

\* df.sort_values('_sort_key'): the rows in non-decreasing key order. The
\* default sort is not stable, so rows with equal keys may come out in any
\* order: every sequence of the rows sorted by key is a possible result.
sort_values(rows) ==
    LET n == Len(rows)
        perms == {f \in [1..n -> 1..n] : \A i, j \in 1..n : i # j => f[i] # f[j]}
        key(r) == _parse_time_to_seconds(rows[r].Elapsed_Time)
    IN  {[i \in 1..n |-> rows[f[i]]] :
            f \in {g \in perms : \A i \in 1..n - 1 : key_le(key(g[i]), key(g[i + 1]))}}

\* excel_export._create_combined_dataframe: the possible "All Results" sheets
_create_combined_dataframe(cats) ==
    LET rows == combined_rows_from(cats, 1)
    IN  IF rows = <<>> THEN {<<>>} ELSE sort_values(rows)

\* excel_export.export_to_excel: the Category sheets (in Session order, one
\* per Category with entries) and the combined sheet, all_results being one
\* of the possible results of the sort. The Invalid IDs sheet is left out.
export_to_excel(cats, all_results) ==
    [sheets |-> [k \in {i \in 1..Len(cats) : cats[i].entries # <<>>} |->
                    _create_category_dataframe(cats[k])],
     all_results |-> IF \E k \in 1..Len(cats) : cats[k].entries # <<>>
                     THEN Some(all_results) ELSE None]

\* ------------------------------------------------------ durations as text

\* A timedelta as Python keeps it: days, seconds below a day, microseconds
\* below a second.
timedelta(days, hours, minutes, seconds, microseconds) ==
    LET total == hours * 3600 + minutes * 60 + seconds + microseconds \div 1000000
    IN  [days |-> days + total \div 86400,
         seconds |-> total % 86400,
         microseconds |-> microseconds % 1000000]

\* The decimal digits, as text.
Digits == <<"0", "1", "2", "3", "4", "5", "6", "7", "8", "9">>

RECURSIVE decimal(_)
\* "%d" % n for n >= 0
decimal(n) ==
    IF n < 10 THEN <<Digits[n + 1]>>
    ELSE decimal(n \div 10) \o <<Digits[(n % 10) + 1]>>

RECURSIVE zero_padded(_, _)
\* "%0<width>d" % n for n >= 0
zero_padded(n, width) ==
    IF Len(decimal(n)) >= width THEN decimal(n)
    ELSE <<"0">> \o zero_padded(n, width - 1)

\* str(timedelta) for a non-negative timedelta: H:MM:SS, with "D day, " or
\* "D days, " in front when there are whole days and ".ffffff" behind when
\* there are microseconds.
str_timedelta(td) ==
    LET mm == td.seconds \div 60
        ss == td.seconds % 60
        hh == mm \div 60
        s == decimal(hh) \o <<":">> \o zero_padded(mm % 60, 2)
                 \o <<":">> \o zero_padded(ss, 2)
        d == IF td.days = 0 THEN <<>>
             ELSE decimal(td.days) \o <<" ", "d", "a", "y">>
                      \o (IF td.days # 1 THEN <<"s">> ELSE <<>>)
                      \o <<",", " ">>
        f == IF td.microseconds = 0 THEN <<>>
             ELSE <<".">> \o zero_padded(td.microseconds, 6)
    IN  d \o s \o f

RECURSIVE split(_, _)
\* str.split(sep) for a one-character separator
split(text, sep) ==
    IF \A i \in 1..Len(text) : text[i] # sep THEN <<text>>
    ELSE LET i == CHOOSE i \in 1..Len(text) :
                      text[i] = sep /\ \A j \in 1..i - 1 : text[j] # sep
         IN  <<SubSeq(text, 1, i - 1)>> \o split(SubSeq(text, i + 1, Len(text)), sep)

RECURSIVE digits_value(_)
\* The number a text of decimal digits stands for.
digits_value(text) ==
    IF text = <<>> THEN 0
    ELSE digits_value(SubSeq(text, 1, Len(text) - 1)) * 10
             + (CHOOSE n \in 0..9 : Digits[n + 1] = text[Len(text)])

\* int(text): the number, or None where int raises ValueError. Surrounding
\* blanks are allowed; signs and underscores occur in no text met here.
int(text) ==
    LET body == strip(text)
    IN  IF body # <<>> /\ \A i \in 1..Len(body) : \E n \in 1..10 : Digits[n] = body[i]
        THEN Some(digits_value(body))
        ELSE None

\* The parse of "H:MM:SS" or "H:MM:SS.microseconds" in FinishEntry.from_dict:
\* the timedelta, or None where an int() or an index raises.
parse_elapsed_time(time_str) ==
    LET parts == split(time_str, ":")
    IN  IF Len(parts) < 3 THEN None
        ELSE LET hours == int(parts[1])
                 minutes == int(parts[2])
                 seconds_parts == split(parts[3], ".")
                 seconds == int(seconds_parts[1])
                 microseconds == IF Len(seconds_parts) > 1
                                 THEN int(seconds_parts[2]) ELSE Some(0)
             IN  IF None \in {hours, minutes, seconds, microseconds} THEN None
                 ELSE Some(timedelta(0, hours[1], minutes[1], seconds[1],
                                     microseconds[1]))

\* The parse of accumulated_pause_duration in Timer.from_dict: the empty
\* text and "0:00:00" leave timedelta(0), any other text is parsed like an
\* elapsed time (the same lines, written out a second time in the source).
parse_accumulated_pause_duration(duration_str) ==
    IF duration_str = <<>> \/ duration_str = <<"0", ":", "0", "0", ":", "0", "0">>
    THEN Some(timedelta(0, 0, 0, 0, 0))
    ELSE parse_elapsed_time(duration_str)

\* ------------------------------------------------------------ main window

\* The part of the window's state the handlers read and write, as one value.
Window ==
    [categories |-> categories,
     last_entries |-> last_entries,
     tables |-> tables,
     next_id |-> next_id]

\* CategoryWidget.update_display of widget i: its table shows the ids of the
\* Category's last 15 entries, most recent first.
update_display(w, i) ==
    LET recent_entries == Reverse(get_recent_entries(w.categories[i], WidgetRows))
    IN  [w EXCEPT !.tables[i] =
            [r \in 1..Len(recent_entries) |-> recent_entries[r].entry_id]]

RECURSIVE widget_from(_, _, _)
\* The loop of update_category_widget: the first widget whose Category has
\* the name, from index i on.
widget_from(w, category_name, i) ==
    IF i > Len(w.categories) THEN None
    ELSE IF w.categories[i].name = category_name THEN Some(i)
    ELSE widget_from(w, category_name, i + 1)

\* MainWindow.update_category_widget(category): refreshes the first widget
\* whose Category bears category.name.
update_category_widget(w, category_name) ==
    LET i == widget_from(w, category_name, 1)
    IN  IF i = None THEN w ELSE update_display(w, i[1])

\* The entry ids in the rows of the recent-entries table, which
\* update_recent_entries rebuilds at the end of every handler that changes
\* the set of entries.
recent_entry_ids(cats) ==
    LET all_entries == get_all_entries(cats)
        shown == SubSeq(all_entries, 1,
                        IF Len(all_entries) > RecentRows
                        THEN RecentRows ELSE Len(all_entries))
    IN  {shown[r].entry_id : r \in 1..Len(shown)}

\* dict.get(key) on the roster record found, or on {} when none was found
\* (data is None): the value or None.
data_get(data, key) ==
    IF data = None THEN None ELSE Some(data[1][key])

\* FinishEntry(...) as process_entry builds it
FinishEntry(entry_id, participant_id, category_name, finish_time, elapsed_time, participant_data, is_valid) ==
    [entry_id |-> entry_id,
     participant_id |-> participant_id,
     category_name |-> category_name,
     finish_time |-> finish_time,
     elapsed_time |-> elapsed_time,
     first_name |-> data_get(participant_data, "first_name"),
     last_name |-> data_get(participant_data, "last_name"),
     team |-> data_get(participant_data, "team"),
     birth_year |-> data_get(participant_data, "birth_year"),
     gender |-> data_get(participant_data, "gender"),
     is_valid_id |-> is_valid,
     is_dnf |-> FALSE,
     notes |-> ""]

\* The fallback of process_entry without the search for a running Timer:
\* always the first Category.
fallback_category_first(cats) ==
    IF cats # <<>> THEN Some(1) ELSE None

\* The Category process_entry falls back to for an id found in no roster:
\* the first with a running Timer, else the first, else None.
fallback_category(cats) ==
    LET running == first_running_from(cats, 1)
    IN  IF running # None THEN running
        ELSE IF cats # <<>> THEN Some(1) ELSE None

\* The push of process_entry without the "if len > 10: pop(0)".
push_undo_unbounded(stack, record) == Append(stack, record)

\* self.last_entries.append(...); if len > 10: pop(0)
push_undo(stack, record) ==
    LET pushed == Append(stack, record)
    IN  IF Len(pushed) > UndoCapacity THEN Tail(pushed) ELSE pushed

\* MainWindow.process_entry with the input field holding text, at clock clk
process_entry(w, text, clk) ==
    LET participant_id == strip(text)
        found == find_participant_category(participant_id, w.categories)
        category == IF found = None THEN fallback_category(w.categories)
                    ELSE found
    IN  IF participant_id = <<>> THEN w
        ELSE IF category = None THEN w
        ELSE LET k == category[1]
                 is_valid == found # None
                 participant_data ==
                     IF is_valid
                     THEN get_participant_data(w.categories[k], participant_id)
                     ELSE None
                 entry == FinishEntry(
                     w.next_id, participant_id, w.categories[k].name, clk,
                     get_elapsed_time(w.categories[k].timer, None, clk),
                     participant_data, is_valid)
                 w1 == [w EXCEPT
                          !.categories[k] = add_entry(@, entry),
                          !.last_entries = push_undo(@, <<entry.entry_id, k>>),
                          !.next_id = @ + 1]
             IN  update_category_widget(w1, w.categories[k].name)

\* MainWindow.undo_last_entry
undo_last_entry(w) ==
    IF w.last_entries = <<>> THEN w
    ELSE LET top == w.last_entries[Len(w.last_entries)]
             entry_id == top[1]
             k == top[2]
             w1 == [w EXCEPT
                      !.last_entries = SubSeq(@, 1, Len(@) - 1),
                      !.categories[k].entries = without_entry(@, entry_id)]
         IN  update_category_widget(w1, w.categories[k].name)

RECURSIVE locate_from(_, _, _)
\* The search loop of on_recent_entry_item_changed: the first Category, in
\* Session order, whose ledger holds the entry id, with the entry's position:
\* <<k, p>>, or None.
locate_from(cats, entry_id, i) ==
    IF i > Len(cats) THEN None
    ELSE LET p == find_entry_from(cats[i].entries, entry_id, 1)
         IN  IF p # None THEN Some(<<i, p[1]>>)
             ELSE locate_from(cats, entry_id, i + 1)

\* The match branch of the edits building the entry anew, is_dnf back at
\* its default.
with_identity_clears_dnf(entry, new_id, data) ==
    [entry EXCEPT !.participant_id = new_id,
                  !.first_name = Some(data.first_name),
                  !.last_name = Some(data.last_name),
                  !.team = Some(data.team),
                  !.birth_year = Some(data.birth_year),
                  !.gender = Some(data.gender),
                  !.is_valid_id = TRUE,
                  !.is_dnf = FALSE]

\* The entry's fields after an edit found participant_data in a roster.
with_identity(entry, new_id, data) ==
    [entry EXCEPT !.participant_id = new_id,
                  !.first_name = Some(data.first_name),
                  !.last_name = Some(data.last_name),
                  !.team = Some(data.team),
                  !.birth_year = Some(data.birth_year),
                  !.gender = Some(data.gender),
                  !.is_valid_id = TRUE]

\* The no-match branch of the edits without the five assignments that
\* blank the identity fields.
without_identity_keeps_names(entry, new_id) ==
    [entry EXCEPT !.participant_id = new_id,
                  !.is_valid_id = FALSE]

\* The entry's fields after an edit found the new id in no roster.
without_identity(entry, new_id) ==
    [entry EXCEPT !.participant_id = new_id,
                  !.is_valid_id = FALSE,
                  !.first_name = Some(""),
                  !.last_name = Some(""),
                  !.team = Some(""),
                  !.birth_year = Some(""),
                  !.gender = Some("")]

\* The move of on_recent_entry_item_changed without the assignment to
\* entry.category_name.
inline_move_keeps_name(w, k, f, e1) ==
    LET w2 == [w EXCEPT !.categories[k].entries = list_remove_from(@, e1, 1)]
        w3 == [w2 EXCEPT !.categories[f] = add_entry(@, e1)]
    IN  update_category_widget(w3, w.categories[f].name)

\* The move of on_recent_entry_item_changed with the elapsed time read
\* again, from the Timer of the Category the entry moves to.
inline_move_recomputes_elapsed(w, k, f, e1) ==
    LET e2 == [e1 EXCEPT
                 !.category_name = w.categories[f].name,
                 !.elapsed_time = get_elapsed_time(w.categories[f].timer,
                                                   Some(e1.finish_time), 0)]
        w2 == [w EXCEPT !.categories[k].entries = list_remove_from(@, e1, 1)]
        w3 == [w2 EXCEPT !.categories[f] = add_entry(@, e2)]
    IN  update_category_widget(w3, w.categories[f].name)

\* The move without the removal from the source ledger: the entry is
\* appended to the destination and a copy stays behind.
inline_move_leaves_copy(w, k, f, e1) ==
    LET e2 == [e1 EXCEPT !.category_name = w.categories[f].name]
        w3 == [w EXCEPT !.categories[f] = add_entry(@, e2)]
    IN  update_category_widget(w3, w.categories[f].name)

\* "Move entry to correct category" in on_recent_entry_item_changed: entry
\* e1 leaves the ledger of Category k, takes the name of Category f and is
\* appended to f's ledger; f's widget is refreshed.
inline_move(w, k, f, e1) ==
    LET e2 == [e1 EXCEPT !.category_name = w.categories[f].name]
        w2 == [w EXCEPT !.categories[k].entries = list_remove_from(@, e1, 1)]
        w3 == [w2 EXCEPT !.categories[f] = add_entry(@, e2)]
    IN  update_category_widget(w3, w.categories[f].name)

\* on_recent_entry_item_changed from "entry.participant_id = new_id" on:
\* the entry at position p of Category k takes the new id, is resolved
\* again, and moves when the roster that holds the id is another Category's.
inline_rebind(w, k, p, new_id) ==
    LET cats == w.categories
        entry == cats[k].entries[p]
        found == find_from(new_id, cats, 1)
        participant_data ==
            IF found = None THEN None
            ELSE get_participant_data(cats[found[1]], new_id)
    IN  IF participant_data # None
        THEN LET e1 == with_identity(entry, new_id, participant_data[1])
                 w1 == [w EXCEPT !.categories[k].entries[p] = e1]
             IN  IF cats[found[1]].name # e1.category_name
                 THEN inline_move(w1, k, found[1], e1)
                 ELSE w1
        ELSE [w EXCEPT !.categories[k].entries[p] =
                           without_identity(entry, new_id)]

\* MainWindow.on_recent_entry_item_changed for the id cell of the row that
\* holds entry_id, edited to text
on_recent_entry_item_changed(w, entry_id, text) ==
    LET new_id == strip(text)
        loc == locate_from(w.categories, entry_id, 1)
    IN  IF new_id = <<>> THEN w
        ELSE IF loc = None THEN w
        ELSE LET k == loc[1][1]
                 p == loc[1][2]
             IN  IF new_id = w.categories[k].entries[p].participant_id THEN w
                 ELSE update_category_widget(inline_rebind(w, k, p, new_id),
                                             w.categories[k].name)

\* "Move entry to correct category" in edit_entry.
dialog_move(w, k, f, e1) ==
    LET e2 == [e1 EXCEPT !.category_name = w.categories[f].name]
        w2 == [w EXCEPT !.categories[k].entries = list_remove_from(@, e1, 1)]
        w3 == [w2 EXCEPT !.categories[f] = add_entry(@, e2)]
    IN  update_category_widget(w3, w.categories[f].name)

\* edit_entry from "entry.participant_id = new_id" on (the same steps as the
\* inline edit, written out a second time in the source).
dialog_rebind(w, k, p, new_id) ==
    LET cats == w.categories
        entry == cats[k].entries[p]
        found == find_from(new_id, cats, 1)
        participant_data ==
            IF found = None THEN None
            ELSE get_participant_data(cats[found[1]], new_id)
    IN  IF participant_data # None
        THEN LET e1 == with_identity(entry, new_id, participant_data[1])
                 w1 == [w EXCEPT !.categories[k].entries[p] = e1]
             IN  IF cats[found[1]].name # e1.category_name
                 THEN dialog_move(w1, k, found[1], e1)
                 ELSE w1
        ELSE [w EXCEPT !.categories[k].entries[p] =
                           without_identity(entry, new_id)]

\* edit_entry without its "ID cannot be empty" check.
edit_entry_accepts_empty(w, entry_id, category_name, accepted, text) ==
    LET category == get_category(w.categories, category_name)
    IN  IF category = None THEN w
        ELSE LET k == category[1]
                 pos == find_entry_from(w.categories[k].entries, entry_id, 1)
                 new_id == strip(text)
             IN  IF pos = None THEN w
                 ELSE IF ~accepted THEN w
                 ELSE update_category_widget(
                          dialog_rebind(w, k, pos[1], new_id),
                          w.categories[k].name)

\* MainWindow.edit_entry(entry_id, category_name); the dialog is accepted
\* with text in its field, or rejected.
edit_entry(w, entry_id, category_name, accepted, text) ==
    LET category == get_category(w.categories, category_name)
    IN  IF category = None THEN w
        ELSE LET k == category[1]
                 pos == find_entry_from(w.categories[k].entries, entry_id, 1)
                 new_id == strip(text)
             IN  IF pos = None THEN w
                 ELSE IF ~accepted THEN w
                 ELSE IF new_id = <<>> THEN w
                 ELSE update_category_widget(
                          dialog_rebind(w, k, pos[1], new_id),
                          w.categories[k].name)

\* A delete that, unlike the code, also takes the entry's record off the
\* undo stack.
delete_entry_drops_record(w, entry_id, category_name, yes) ==
    LET category == get_category(w.categories, category_name)
    IN  IF category = None \/ ~yes THEN w
        ELSE update_category_widget(
                 [w EXCEPT !.categories[category[1]].entries =
                               without_entry(@, entry_id),
                           !.last_entries =
                               SelectSeq(@, LAMBDA x : x[1] # entry_id)],
                 category_name)

\* MainWindow.delete_entry(entry_id, category_name); the operator answers
\* the confirmation with Yes or No.
delete_entry(w, entry_id, category_name, yes) ==
    LET category == get_category(w.categories, category_name)
    IN  IF category = None THEN w
        ELSE LET k == category[1]
                 pos == find_entry_from(w.categories[k].entries, entry_id, 1)
             IN  IF pos = None THEN w
                 ELSE IF ~yes THEN w
                 ELSE update_category_widget(
                          [w EXCEPT !.categories[k].entries =
                                        without_entry(@, entry_id)],
                          w.categories[k].name)

\* The "Mark as DNF" branch of CategoryWidget.show_context_menu of widget i
\* for the row that holds entry_id.
mark_dnf(w, i, entry_id) ==
    LET pos == find_entry_from(w.categories[i].entries, entry_id, 1)
    IN  IF pos = None THEN w
        ELSE update_display(
                 [w EXCEPT !.categories[i].entries[pos[1]].is_dnf = TRUE], i)

\* CategoryWidget.toggle_timer
toggle_timer(t, clk) ==
    IF t.state = NOT_STARTED THEN start(t, clk)
    ELSE IF t.state = RUNNING THEN stop(t, clk)
    ELSE t

\* A load_category that looks the invalid entries up in the new roster.
load_category_resolving(w, input) ==
    LET resolved(e) ==
            IF ~e.is_valid_id /\ e.participant_id \in DOMAIN input.participants
            THEN with_identity(e, e.participant_id,
                               input.participants[e.participant_id])
            ELSE e
        w1 == [w EXCEPT
                 !.categories =
                     Append([k \in 1..Len(@) |->
                                [@[k] EXCEPT !.entries =
                                    [p \in 1..Len(@) |-> resolved(@[p])]]],
                            Category(input.name, input.participants)),
                 !.tables = Append(@, <<>>)]
    IN  update_display(w1, Len(w1.categories))

\* MainWindow.load_category with the dialog accepted: Session.add_category
\* and add_category_widget (the new widget's table is built by update_display).
load_category(w, input) ==
    LET w1 == [w EXCEPT
                 !.categories = Append(@, Category(input.name, input.participants)),
                 !.tables = Append(@, <<>>)]
    IN  update_display(w1, Len(w1.categories))

\* ------------------------------------------------------------ persistence

\* The timedelta that a difference of clock readings stands for.
timedelta_of(ticks) ==
    timedelta(0, 0, 0, ticks \div TicksPerSecond,
              (ticks % TicksPerSecond) * (1000000 \div TicksPerSecond))

\* The difference of clock readings that a timedelta stands for.
ticks_of(td) ==
    (td.days * 86400 + td.seconds) * TicksPerSecond
        + td.microseconds \div (1000000 \div TicksPerSecond)

\* datetime.isoformat(): date and time to the second, and the microseconds
\* when there are any.
isoformat(t) ==
    [seconds |-> t \div TicksPerSecond,
     microsecond |-> IF t % TicksPerSecond = 0 THEN None
                     ELSE Some((t % TicksPerSecond) * (1000000 \div TicksPerSecond))]

\* datetime.fromisoformat(text)
fromisoformat(text) ==
    text.seconds * TicksPerSecond
        + (IF text.microsecond = None THEN 0
           ELSE text.microsecond[1] \div (1000000 \div TicksPerSecond))

\* x.isoformat() if x else None
isoformat_or_none(x) == IF x = None THEN None ELSE Some(isoformat(x[1]))

\* datetime.fromisoformat(x) if x else None
fromisoformat_or_none(x) == IF x = None THEN None ELSE Some(fromisoformat(x[1]))

\* Timer.to_dict
Timer_to_dict(t) ==
    [state |-> t.state,
     start_time |-> isoformat_or_none(t.start_time),
     stop_time |-> isoformat_or_none(t.stop_time),
     pause_time |-> isoformat_or_none(t.pause_time),
     accumulated_pause_duration |->
         str_timedelta(timedelta_of(t.accumulated_pause_duration))]

\* The keys of a dict.
Keys(data) == DOMAIN data

\* An exception goes up the call stack: the rest of a function, F, runs on
\* what a call returned, unless the call raised.
unless_raised(x, F(_)) == IF x = None THEN None ELSE F(x[1])

\* A list comprehension raises as soon as the call for one element raises.
all_or_none(made) ==
    IF \E k \in 1..Len(made) : made[k] = None THEN None
    ELSE Some([k \in 1..Len(made) |-> made[k][1]])

\* Timer.from_dict: the Timer, or None where a missing key or a bad
\* duration text raises.
Timer_from_dict(data) ==
    IF ~({"state", "start_time", "stop_time", "pause_time",
          "accumulated_pause_duration"} \subseteq Keys(data))
    THEN None
    ELSE unless_raised(
             parse_accumulated_pause_duration(data.accumulated_pause_duration),
             LAMBDA d :
                 Some([state |-> data.state,
                       start_time |-> fromisoformat_or_none(data.start_time),
                       stop_time |-> fromisoformat_or_none(data.stop_time),
                       pause_time |-> fromisoformat_or_none(data.pause_time),
                       accumulated_pause_duration |-> ticks_of(d)]))

\* FinishEntry.to_dict: asdict with finish_time and elapsed_time as text
FinishEntry_to_dict(entry) ==
    [entry EXCEPT !.finish_time = isoformat(@),
                  !.elapsed_time = str_timedelta(timedelta_of(@))]

\* FinishEntry.from_dict: the entry, or None where a missing key or a bad
\* duration text raises. (A record written by to_dict has every field.)
FinishEntry_from_dict(data) ==
    IF ~({"entry_id", "participant_id", "category_name", "finish_time",
          "elapsed_time"} \subseteq Keys(data))
    THEN None
    ELSE unless_raised(
             parse_elapsed_time(data.elapsed_time),
             LAMBDA d : Some([data EXCEPT !.finish_time = fromisoformat(@),
                                          !.elapsed_time = ticks_of(d)]))

\* Category.to_dict (csv_path and id_column, which the model of a Category
\* does not keep, are left out)
Category_to_dict(c) ==
    [name |-> c.name,
     timer |-> Timer_to_dict(c.timer),
     entries |-> [p \in 1..Len(c.entries) |-> FinishEntry_to_dict(c.entries[p])],
     participants |-> c.participants]

\* Category.from_dict: the Category, or None where something raises. The
\* constructor is called with the csv_path, so it reads the roster file
\* again and raises when that fails (csv_ok is false); the roster read is
\* then replaced by the persisted one.
Category_from_dict(data, csv_ok) ==
    IF ~({"name", "timer", "entries", "participants"} \subseteq Keys(data))
    THEN None
    ELSE IF ~csv_ok THEN None
    ELSE unless_raised(
             Timer_from_dict(data.timer),
             LAMBDA timer :
                 unless_raised(
                     all_or_none([p \in 1..Len(data.entries) |->
                                     FinishEntry_from_dict(data.entries[p])]),
                     LAMBDA entries :
                         Some([name |-> data.name,
                               participants |-> data.participants,
                               timer |-> timer,
                               entries |-> entries])))

\* The dict Session.save serialises. json.dump and json.load of such a dict
\* (texts, booleans, nulls, lists, dicts with text keys) give back an equal
\* dict, so a well-formed file is kept as the dict.
Session_to_dict(name, created, cats, clk) ==
    [session_name |-> name,
     created_at |-> isoformat(created),
     last_saved |-> isoformat(clk),
     categories |-> [k \in 1..Len(cats) |-> Category_to_dict(cats[k])]]

\* What a file can hold: a dict as written, or what json.load cannot read.
JsonFile(data) == [readable |-> TRUE, data |-> data]

Truncated == [readable |-> FALSE, data |-> <<>>]

\* A file written at clock reading clk.
File(clk, content) == [mtime |-> clk, content |-> content]

\* The list comprehension of Session.load that also skips what fails.
categories_from_dict_skipping(list, csv_ok) ==
    LET made == [k \in 1..Len(list) |-> Category_from_dict(list[k], csv_ok)]
        kept == SelectSeq(made, LAMBDA x : x # None)
    IN  Some([k \in 1..Len(kept) |-> kept[k][1]])

\* [Category.from_dict(cat_data) for cat_data in data['categories']]: the
\* Categories, or None as soon as one from_dict raises.
categories_from_dict(list, csv_ok) ==
    all_or_none([k \in 1..Len(list) |-> Category_from_dict(list[k], csv_ok)])

\* Session.load(filepath) for the file's content: the loaded Session, or
\* None where open, json.load, a missing key or a from_dict raises
\* (last_saved is read with data.get and may be missing).
Session_load(file, csv_ok) ==
    IF ~file.readable THEN None
    ELSE IF ~({"session_name", "created_at", "categories"} \subseteq Keys(file.data))
    THEN None
    ELSE unless_raised(
             categories_from_dict(file.data.categories, csv_ok),
             LAMBDA cats :
                 Some([session_name |-> file.data.session_name,
                       created_at |-> fromisoformat(file.data.created_at),
                       categories |-> cats]))

\* A function without one of its arguments.
Without(f, x) == [y \in DOMAIN f \ {x} |-> f[y]]

\* A function with the value at x set.
With(f, x, v) == [y \in DOMAIN f \cup {x} |-> IF y = x THEN v ELSE f[y]]

\* What goes wrong in a save: nothing, the rename, the open or the dump.
Faults == {"none", "rename", "open", "dump"}

\* Path.rename onto an existing file replaces it on POSIX and raises on
\* Windows.
Platforms == {"posix", "nt"}

\* Session.save up to the rename (session.py lines 60-73): the session gets
\* its name at the first save, "session_" and the clock second, kept as the
\* second; a file of that name is moved to the backups under its name and
\* the clock second, replacing a backup of that name where the platform
\* does so.
Session_save_backup(name, files, clk, env) ==
    LET session_name1 == IF name = None THEN Some(clk \div TicksPerSecond) ELSE name
        filepath == session_name1[1]
        backup_path == <<filepath, clk \div TicksPerSecond>>
    IN  IF filepath \notin DOMAIN files.sessions
        THEN [session_name |-> session_name1, disk |-> files, raised |-> FALSE]
        ELSE IF env.fault = "rename"
                \/ (backup_path \in DOMAIN files.backups /\ env.os = "nt")
        THEN [session_name |-> session_name1, disk |-> files, raised |-> TRUE]
        ELSE [session_name |-> session_name1,
              disk |-> [sessions |-> Without(files.sessions, filepath),
                        backups |-> With(files.backups, backup_path,
                                         files.sessions[filepath])],
              raised |-> FALSE]

\* Session.save from the rename on (session.py lines 75-88): the dict is
\* built and written. A failing open leaves no file, a failing dump a file
\* that cannot be read.
Session_save_write(name, created, cats, files, clk, env) ==
    IF env.fault = "open" THEN [disk |-> files, raised |-> TRUE]
    ELSE IF env.fault = "dump"
    THEN [disk |-> [files EXCEPT !.sessions =
                       With(@, name[1], File(clk, Truncated))],
          raised |-> TRUE]
    ELSE [disk |-> [files EXCEPT !.sessions =
                       With(@, name[1],
                            File(clk, JsonFile(Session_to_dict(name, created, cats,
                                                             clk))))],
          raised |-> FALSE]

\* What the operator or the console is told.
SAVED == "Session saved"

SAVE_FAILED == "Failed to save session"

AUTO_SAVE_FAILED == "Auto-save failed"

RESUMED == "Session resumed"

LOAD_FAILED == "Failed to load session"

CRASHED == "unhandled exception"

\* The except clause of auto_save left out: the exception leaves the slot.
auto_save_uncaught(by) == IF by = "auto" THEN CRASHED ELSE SAVE_FAILED

\* The except clauses of save_session and auto_save: an error dialog, or a
\* line on the console.
save_failed(by) == IF by = "auto" THEN AUTO_SAVE_FAILED ELSE SAVE_FAILED

\* After a save that did not raise: save_session shows the status,
\* auto_save says nothing.
save_succeeded(by, old) == IF by = "auto" THEN old ELSE SAVED

\* The window together with its Session's name and the files.
App ==
    [categories |-> categories,
     last_entries |-> last_entries,
     tables |-> tables,
     next_id |-> next_id,
     session_name |-> session_name,
     created_at |-> created_at,
     disk |-> disk,
     save_pc |-> save_pc,
     report |-> report]

\* save_session (by = "manual") or auto_save (by = "auto") up to the end
\* of the rename in Session.save. auto_save does nothing without a
\* Category. When the rename raises, the handler's except clause ends the
\* call; otherwise the call is in flight.
begin_save(a, by, clk, env) ==
    IF by = "auto" /\ a.categories = <<>> THEN a
    ELSE LET r == Session_save_backup(a.session_name, a.disk, clk, env)
         IN  IF r.raised
             THEN [a EXCEPT !.session_name = r.session_name,
                            !.report = save_failed(by)]
             ELSE [a EXCEPT !.session_name = r.session_name,
                            !.disk = r.disk,
                            !.save_pc = Append(@, by)]

\* The rest of the save in flight: the write, then the handler's report.
finish_save(a, clk, env) ==
    LET by == a.save_pc[Len(a.save_pc)]
        r == Session_save_write(a.session_name, a.created_at, a.categories,
                                a.disk, clk, env)
    IN  [a EXCEPT !.disk = r.disk,
                  !.save_pc = SubSeq(@, 1, Len(@) - 1),
                  !.report = IF r.raised THEN save_failed(by)
                             ELSE save_succeeded(by, a.report)]

\* A whole handler call: begin_save and, when a save is in flight then,
\* finish_save.
whole_save(a, by, clk, env) ==
    CHOOSE done \in {IF Len(b.save_pc) > Len(a.save_pc)
                     THEN finish_save(b, clk, env) ELSE b :
                     b \in {begin_save(a, by, clk, env)}} : TRUE

\* MainWindow.save_session (Ctrl+S)
save_session(a, clk, env) == whole_save(a, "manual", clk, env)

\* An auto_save that saves only a Session that has a name already.
auto_save_named_only(a, clk, env) ==
    IF a.session_name = None THEN a ELSE whole_save(a, "auto", clk, env)

\* MainWindow.auto_save (the 30 s timer, and closeEvent)
auto_save(a, clk, env) == whole_save(a, "auto", clk, env)

\* The event loop hands out the next event whatever is in flight.
event_loop_reentered(pc) == TRUE

\* The event loop hands out the next event (a key, a click, a timer tick)
\* only when no handler is running: save_session, auto_save and
\* Session.save open no dialog and never call back into the event loop, so
\* a save in flight runs to its end first.
event_loop_idle(pc) == pc = <<>>

\* What leaves the window able to handle the next event: no handler is
\* running and no exception has left a slot.
dispatches(a) == event_loop_idle(a.save_pc) /\ a.report # CRASHED

\* Session.get_latest_session: the session files modified last (the last
\* write to a file is its last_saved).
get_latest_session(files) ==
    {f \in DOMAIN files.sessions :
        \A g \in DOMAIN files.sessions :
            files.sessions[g].mtime <= files.sessions[f].mtime}

RECURSIVE widgets_from(_, _)
\* "for category in self.session.categories: self.add_category_widget":
\* each new widget builds its table, from Category i on.
widgets_from(w, i) ==
    IF i > Len(w.categories) THEN w
    ELSE widgets_from(update_display(w, i), i + 1)

\* MainWindow.__init__ and prompt_load_last_session in a new process: a new
\* Session and no widgets; when there is a session file and the operator
\* answers Yes, Session.load of the latest file. When it raises, the error
\* is shown and the new Session stays; otherwise the loaded Session
\* replaces it and a widget is built for each Category.
prompt_load_last_session(files, ids, latest, yes, csv_ok, clk) ==
    LET fresh == [categories |-> <<>>, last_entries |-> <<>>, tables |-> <<>>,
                  next_id |-> ids, session_name |-> None, created_at |-> clk,
                  disk |-> files,
                  save_pc |-> <<>>, report |-> None]
    IN  IF latest = None \/ ~yes THEN fresh
        ELSE LET loaded == Session_load(files.sessions[latest[1]].content, csv_ok)
             IN  IF loaded = None THEN [fresh EXCEPT !.report = LOAD_FAILED]
                 ELSE LET cats == loaded[1].categories
                          shown == widgets_from(
                                       [categories |-> cats,
                                        last_entries |-> <<>>,
                                        tables |-> [k \in 1..Len(cats) |-> <<>>],
                                        next_id |-> ids], 1)
                      IN  [fresh EXCEPT
                             !.categories = cats,
                             !.tables = shown.tables,
                             !.session_name = loaded[1].session_name,
                             !.created_at = loaded[1].created_at,
                             !.report = RESUMED]

\* ---------------------------------------------------------------- actions

\* A fresh window that resumed no session, with no session file on disk:
\* Session.__init__ leaves session_name empty and reads the clock, which
\* starts at 0; nothing has been saved, loaded or reported.
NothingStored ==
    /\ session_name = None
    /\ created_at = 0
    /\ disk = [sessions |-> <<>>, backups |-> <<>>]
    /\ save_pc = <<>>
    /\ report = None
    /\ duration = None

\* The handler's result becomes the window's state.
Apply(w) ==
    /\ categories' = w.categories
    /\ last_entries' = w.last_entries
    /\ tables' = w.tables
    /\ next_id' = w.next_id

\* MainWindow.__init__ with no previous session resumed: an empty Session,
\* an empty undo stack, no widgets.
Init ==
    /\ now = 0
    /\ categories = <<>>
    /\ last_entries = <<>>
    /\ tables = <<>>
    /\ next_id = 1
    /\ workbook = None
    /\ NothingStored

\* Time passes.
Tick ==
    /\ now < MaxTime
    /\ now' = now + 1
    /\ UNCHANGED <<categories, last_entries, tables, next_id, workbook, persistence>>

\* Ctrl+L / Load Category, the dialog accepted.
LoadCategory ==
    \E input \in LoadInputs :
        /\ Len(categories) < MaxCats
        /\ Apply(load_category(Window, input))
        /\ UNCHANGED <<now, workbook, persistence>>

\* The Start/Stop button of a Category's widget.
ToggleTimer ==
    \E i \in 1..Len(categories) :
        /\ categories' = [categories EXCEPT ![i].timer = toggle_timer(@, now)]
        /\ UNCHANGED <<now, last_entries, tables, next_id, workbook, persistence>>

\* Timer.pause() on a Category's Timer.
PauseTimer ==
    \E i \in 1..Len(categories) :
        /\ categories' = [categories EXCEPT ![i].timer = pause(@, now)]
        /\ UNCHANGED <<now, last_entries, tables, next_id, workbook, persistence>>

\* Timer.start() on a Category's Timer (resumes a paused Timer).
StartTimer ==
    \E i \in 1..Len(categories) :
        /\ categories' = [categories EXCEPT ![i].timer = start(@, now)]
        /\ UNCHANGED <<now, last_entries, tables, next_id, workbook, persistence>>

\* Timer.stop() on a Category's Timer.
StopTimer ==
    \E i \in 1..Len(categories) :
        /\ categories' = [categories EXCEPT ![i].timer = stop(@, now)]
        /\ UNCHANGED <<now, last_entries, tables, next_id, workbook, persistence>>

\* Timer.reset() on a Category's Timer.
ResetTimer ==
    \E i \in 1..Len(categories) :
        /\ categories' = [categories EXCEPT ![i].timer = reset(@)]
        /\ UNCHANGED <<now, last_entries, tables, next_id, workbook, persistence>>

\* Return pressed in the input field, while fewer than cap entries have
\* been submitted.
SubmitUpTo(cap) ==
    \E text \in RawInputs :
        /\ next_id <= cap
        /\ Apply(process_entry(Window, text, now))
        /\ UNCHANGED <<now, workbook, persistence>>

\* Return pressed in the input field.
Submit == SubmitUpTo(MaxEntries)

\* Ctrl+Z / the Undo button.
Undo ==
    /\ Apply(undo_last_entry(Window))
    /\ UNCHANGED <<now, workbook, persistence>>

\* The id cell of a row of the recent-entries table is edited.
InlineEdit ==
    \E entry_id \in recent_entry_ids(categories), text \in RawInputs :
        /\ Apply(on_recent_entry_item_changed(Window, entry_id, text))
        /\ UNCHANGED <<now, workbook, persistence>>

\* "Edit Time" in the context menu of a row of a Category's table; the
\* dialog is rejected, or accepted with some text in its field.
DialogEdit ==
    \E i \in 1..Len(categories) :
        \E r \in 1..Len(tables[i]) :
            \E choice \in {<<FALSE, <<>> >>} \cup {<<TRUE, x>> : x \in RawInputs} :
                /\ Apply(edit_entry(Window, tables[i][r], categories[i].name,
                                    choice[1], choice[2]))
                /\ UNCHANGED <<now, workbook, persistence>>

\* "Delete Entry" in the context menu of a row of a Category's table.
Delete ==
    \E i \in 1..Len(categories) :
        \E r \in 1..Len(tables[i]), yes \in BOOLEAN :
            /\ Apply(delete_entry(Window, tables[i][r], categories[i].name, yes))
            /\ UNCHANGED <<now, workbook, persistence>>

\* "Mark as DNF" in the context menu of a row of a Category's table.
MarkDnf ==
    \E i \in 1..Len(categories) :
        \E r \in 1..Len(tables[i]) :
            /\ Apply(mark_dnf(Window, i, tables[i][r]))
            /\ UNCHANGED <<now, workbook, persistence>>

Next ==
    \/ Tick
    \/ LoadCategory
    \/ ToggleTimer
    \/ PauseTimer
    \/ StartTimer
    \/ StopTimer
    \/ ResetTimer
    \/ Submit
    \/ Undo
    \/ InlineEdit
    \/ DialogEdit
    \/ Delete
    \/ MarkDnf

Spec == Init /\ [][Next]_vars

\* ------------------------------------------------- the ledger on its own

\* Return pressed in the input field (LedgerSpec).
SubmitLedger == SubmitUpTo(MaxLedger)

\* The window's handlers with the clock standing still: more entries, no
\* passage of time.
NextLedger ==
    \/ LoadCategory
    \/ ToggleTimer
    \/ SubmitLedger
    \/ Undo
    \/ InlineEdit
    \/ DialogEdit
    \/ Delete
    \/ MarkDnf

LedgerSpec == Init /\ [][NextLedger]_vars

\* -------------------------------------------------- one Timer on its own

\* One Category, hence one Timer, and nothing else.
InitTimer ==
    /\ now = 0
    /\ categories = <<Category("A", RosterA)>>
    /\ last_entries = <<>>
    /\ tables = << <<>> >>
    /\ next_id = 1
    /\ workbook = None
    /\ NothingStored

\* Time passes (TimerSpec).
TickTimer ==
    /\ now < MaxClock
    /\ now' = now + 1
    /\ UNCHANGED <<categories, last_entries, tables, next_id, workbook, persistence>>

\* Every sequence of Timer.start/stop/pause/reset calls on one Timer,
\* interleaved with a non-decreasing clock.
NextTimer ==
    \/ TickTimer
    \/ StartTimer
    \/ StopTimer
    \/ PauseTimer
    \/ ResetTimer

TimerSpec == InitTimer /\ [][NextTimer]_vars

\* ------------------------------------------- submissions and undo only

\* Two Categories are loaded and no entry has been submitted.
InitUndo ==
    /\ now = 0
    /\ categories = <<Category("A", RosterA), Category("B", RosterB)>>
    /\ last_entries = <<>>
    /\ tables = << <<>>, <<>> >>
    /\ next_id = 1
    /\ workbook = None
    /\ NothingStored

\* The ids typed in UndoSpec: one of Category B's roster, one of no roster.
UndoInputs == { <<"2">>, <<"9">> }

\* Return pressed in the input field (UndoSpec).
SubmitUndo ==
    \E text \in UndoInputs :
        /\ next_id <= MaxSubmissions
        /\ Apply(process_entry(Window, text, now))
        /\ UNCHANGED <<now, workbook, persistence>>

\* Submissions and undos only, enough of them to overflow the undo stack.
NextUndo ==
    \/ SubmitUndo
    \/ Undo

UndoSpec == InitUndo /\ [][NextUndo]_vars

\* --------------------------------------- entries while the clock advances

\* Categories A and B are loaded, A's Timer was started at 0 and the clock
\* reads 1 since: the two Timers read different elapsed times.
InitEntry ==
    /\ now = 1
    /\ categories = <<[Category("A", RosterA) EXCEPT !.timer = start(@, 0)],
                      Category("B", RosterB)>>
    /\ last_entries = <<>>
    /\ tables = << <<>>, <<>> >>
    /\ next_id = 1
    /\ workbook = None
    /\ NothingStored

\* The ids typed in EntrySpec: one of Category B's roster, one of no roster.
EntryInputs == { <<"2">>, <<"9">> }

\* Return pressed in the input field (EntrySpec).
SubmitEntry ==
    \E text \in EntryInputs :
        /\ next_id <= MaxEntrySubmits
        /\ Apply(process_entry(Window, text, now))
        /\ UNCHANGED <<now, workbook, persistence>>

\* The id cell of a row of the recent-entries table is edited (EntrySpec).
InlineEditEntry ==
    \E entry_id \in recent_entry_ids(categories), text \in EntryInputs :
        /\ Apply(on_recent_entry_item_changed(Window, entry_id, text))
        /\ UNCHANGED <<now, workbook, persistence>>

\* The edit dialog of a row of a Category's table is accepted (EntrySpec).
DialogEditEntry ==
    \E i \in 1..Len(categories) :
        \E r \in 1..Len(tables[i]), text \in EntryInputs :
            /\ Apply(edit_entry(Window, tables[i][r], categories[i].name,
                                TRUE, text))
            /\ UNCHANGED <<now, workbook, persistence>>

\* "Delete Entry" confirmed with Yes (EntrySpec).
DeleteEntry ==
    \E i \in 1..Len(categories) :
        \E r \in 1..Len(tables[i]) :
            /\ Apply(delete_entry(Window, tables[i][r], categories[i].name, TRUE))
            /\ UNCHANGED <<now, workbook, persistence>>

\* Two Categories whose Timers read differently and two entries:
\* submissions, edits, DNF marks, undo, delete and the Timers'
\* start/stop/pause/reset.
NextEntry ==
    \/ ToggleTimer
    \/ PauseTimer
    \/ StartTimer
    \/ ResetTimer
    \/ SubmitEntry
    \/ Undo
    \/ InlineEditEntry
    \/ DialogEditEntry
    \/ DeleteEntry
    \/ MarkDnf

EntrySpec == InitEntry /\ [][NextEntry]_vars

\* ------------------------------------------------------ the export alone

\* What distinguishes the entries of a ledger under ExportSpec: the elapsed
\* time and the DNF mark.
EntryShapes == [elapsed_time : 0..MaxElapsed, is_dnf : BOOLEAN]

\* The ledgers of at most n entries.
Shapes(n) == UNION {[1..m -> EntryShapes] : m \in 0..n}

\* The entry of the given shape as process_entry and "Mark as DNF" leave
\* it: participant_id from Category k's roster, recorded at finish_time.
ShapedEntry(entry_id, k, participant_id, cats, shape, finish_time) ==
    [FinishEntry(entry_id, participant_id, cats[k].name, finish_time,
                 shape.elapsed_time,
                 get_participant_data(cats[k], participant_id), TRUE)
        EXCEPT !.is_dnf = shape.is_dnf]

\* Two Categories with entries recorded and marked earlier, in every mix
\* of elapsed times and DNF marks; the undo stack is empty and nothing has
\* been exported.
InitExport ==
    \E first \in Shapes(MaxFirstLedger), second \in Shapes(MaxSecondLedger) :
        LET empty == <<Category("A", RosterA), Category("B", RosterB)>>
            cats == [empty EXCEPT
                       ![1].entries =
                           [p \in 1..Len(first) |->
                               ShapedEntry(p, 1, <<"1">>, empty, first[p],
                                           MaxElapsed)],
                       ![2].entries =
                           [p \in 1..Len(second) |->
                               ShapedEntry(Len(first) + p, 2, <<"2">>, empty,
                                           second[p], MaxElapsed)]]
            shown == update_display(update_display(
                         [categories |-> cats, last_entries |-> <<>>,
                          tables |-> << <<>>, <<>> >>,
                          next_id |-> Len(first) + Len(second) + 1], 1), 2)
        IN  /\ now = MaxElapsed
            /\ categories = cats
            /\ last_entries = <<>>
            /\ tables = shown.tables
            /\ next_id = shown.next_id
            /\ workbook = None
            /\ NothingStored

\* Ctrl+E / Export Results with some entry recorded and a file chosen:
\* export_to_excel writes the sheets.
Export ==
    \E all_results \in _create_combined_dataframe(categories) :
        /\ categories # <<>>
        /\ \E k \in 1..Len(categories) : categories[k].entries # <<>>
        /\ workbook' = Some(export_to_excel(categories, all_results))
        /\ UNCHANGED <<now, categories, last_entries, tables, next_id, persistence>>

NextExport ==
    \/ Export

ExportSpec == InitExport /\ [][NextExport]_vars

\* ------------------------------------------ any file under any name

\* What CSVLoaderDialog hands to load_category when the operator may pick
\* either roster file under either Category name.
NamedInputs ==
    { [name |-> n, participants |-> r] :
        n \in {"A", "B"}, r \in {RosterA, RosterB} }

\* Ctrl+L / Load Category, the dialog accepted (RosterSpec).
LoadNamed ==
    \E input \in NamedInputs :
        /\ Len(categories) < MaxCats
        /\ Apply(load_category(Window, input))
        /\ UNCHANGED <<now, workbook, persistence>>

\* The handlers of LedgerSpec, with every pairing of name and roster file.
NextRoster ==
    \/ LoadNamed
    \/ ToggleTimer
    \/ SubmitLedger
    \/ Undo
    \/ InlineEdit
    \/ DialogEdit
    \/ Delete
    \/ MarkDnf

RosterSpec == Init /\ [][NextRoster]_vars

\* ------------------------------------- submissions at different times

\* Time passes (OrderSpec).
TickOrder ==
    /\ now < MaxOrderTime
    /\ now' = now + 1
    /\ UNCHANGED <<categories, last_entries, tables, next_id, workbook, persistence>>

\* Two Categories and two entries submitted at any two clock readings,
\* then edited, undone or deleted.
NextOrder ==
    \/ TickOrder
    \/ SubmitEntry
    \/ Undo
    \/ InlineEditEntry
    \/ DialogEditEntry
    \/ DeleteEntry

OrderSpec == InitUndo /\ [][NextOrder]_vars

\* ------------------------------------------------- one duration as text

\* The durations written and read back under DurationSpec: up to MaxDays
\* whole days, seconds on both sides of the minute and hour boundaries,
\* microseconds with and without leading zeros.
Durations ==
    [days : 0..MaxDays,
     seconds : {0, 1, 59, 60, 3599, 3600, 86399},
     microseconds : {0, 1, 7000, 999999}]

\* Some duration is about to be saved.
InitDuration ==
    /\ now = 0
    /\ categories = <<>>
    /\ last_entries = <<>>
    /\ tables = <<>>
    /\ next_id = 1
    /\ workbook = None
    /\ session_name = None
    /\ created_at = 0
    /\ disk = [sessions |-> <<>>, backups |-> <<>>]
    /\ save_pc = <<>>
    /\ report = None
    /\ \E d \in Durations :
           duration = [value |-> d, text |-> None,
                       elapsed_time |-> None, accumulated_pause_duration |-> None]

\* to_dict of FinishEntry and of Timer: the duration becomes text.
WriteDuration ==
    /\ duration.text = None
    /\ duration' = [duration EXCEPT !.text = Some(str_timedelta(duration.value))]
    /\ UNCHANGED <<now, categories, last_entries, tables, next_id, workbook,
                   session_name, created_at, disk, save_pc, report>>

\* FinishEntry.from_dict reads the text as an elapsed_time; None inside
\* stands for the exception.
ReadElapsedTime ==
    /\ duration.text # None
    /\ duration.elapsed_time = None
    /\ duration' = [duration EXCEPT
                      !.elapsed_time = Some(parse_elapsed_time(duration.text[1]))]
    /\ UNCHANGED <<now, categories, last_entries, tables, next_id, workbook,
                   session_name, created_at, disk, save_pc, report>>

\* Timer.from_dict reads the text as an accumulated_pause_duration.
ReadAccumulatedPauseDuration ==
    /\ duration.text # None
    /\ duration.accumulated_pause_duration = None
    /\ duration' = [duration EXCEPT
                      !.accumulated_pause_duration =
                          Some(parse_accumulated_pause_duration(duration.text[1]))]
    /\ UNCHANGED <<now, categories, last_entries, tables, next_id, workbook,
                   session_name, created_at, disk, save_pc, report>>

NextDuration ==
    \/ WriteDuration
    \/ ReadElapsedTime
    \/ ReadAccumulatedPauseDuration

DurationSpec == InitDuration /\ [][NextDuration]_vars

\* ------------------------------------------------- saving and resuming

\* The handler's result becomes the state of the window, of its Session
\* and of the files.
ApplyApp(a) ==
    /\ categories' = a.categories
    /\ last_entries' = a.last_entries
    /\ tables' = a.tables
    /\ next_id' = a.next_id
    /\ session_name' = a.session_name
    /\ created_at' = a.created_at
    /\ disk' = a.disk
    /\ save_pc' = a.save_pc
    /\ report' = a.report

\* Category A is loaded; nothing has been saved.
InitPersist ==
    /\ now = 0
    /\ categories = <<Category("A", RosterA)>>
    /\ last_entries = <<>>
    /\ tables = << <<>> >>
    /\ next_id = 1
    /\ workbook = None
    /\ NothingStored

\* The next event is handed to the window.
Dispatch == dispatches(App)

\* Time passes (PersistSpec).
TickPersist ==
    /\ now < MaxPersistTime
    /\ now' = now + 1
    /\ UNCHANGED <<categories, last_entries, tables, next_id, workbook, persistence>>

\* The ids typed in PersistSpec: one of the roster, one of no roster.
PersistInputs == { <<"1">>, <<"9">> }

\* Return pressed in the input field (PersistSpec).
SubmitPersist ==
    /\ Dispatch
    /\ \E text \in PersistInputs :
           /\ next_id <= MaxPersistEntries
           /\ Apply(process_entry(Window, text, now))
           /\ UNCHANGED <<now, workbook, persistence>>

\* The Start/Stop button (PersistSpec).
TogglePersist == Dispatch /\ ToggleTimer

\* Ctrl+Z (PersistSpec).
UndoPersist == Dispatch /\ Undo

\* An id cell of the recent-entries table is edited (PersistSpec).
InlineEditPersist ==
    /\ Dispatch
    /\ \E entry_id \in recent_entry_ids(categories), text \in PersistInputs :
           /\ Apply(on_recent_entry_item_changed(Window, entry_id, text))
           /\ UNCHANGED <<now, workbook, persistence>>

\* The edit dialog of a row is accepted (PersistSpec).
DialogEditPersist ==
    /\ Dispatch
    /\ \E i \in 1..Len(categories) :
           \E r \in 1..Len(tables[i]), text \in PersistInputs :
               /\ Apply(edit_entry(Window, tables[i][r], categories[i].name,
                                   TRUE, text))
               /\ UNCHANGED <<now, workbook, persistence>>

\* "Delete Entry" confirmed (PersistSpec).
DeletePersist == Dispatch /\ DeleteEntry

\* "Mark as DNF" (PersistSpec).
MarkDnfPersist == Dispatch /\ MarkDnf

\* What the platform and the file system do to one Session.save call.
Environments == [os : Platforms, fault : Faults]

\* Ctrl+S: save_session runs up to the rename.
BeginManualSave ==
    /\ Dispatch
    /\ \E env \in Environments : ApplyApp(begin_save(App, "manual", now, env))
    /\ UNCHANGED <<now, workbook, duration>>

\* The auto-save timer fires: auto_save runs up to the rename.
BeginAutoSave ==
    /\ Dispatch
    /\ \E env \in Environments : ApplyApp(begin_save(App, "auto", now, env))
    /\ UNCHANGED <<now, workbook, duration>>

\* The save in flight writes the file and its handler returns.
FinishSave ==
    /\ save_pc # <<>>
    /\ \E env \in Environments : ApplyApp(finish_save(App, now, env))
    /\ UNCHANGED <<now, workbook, duration>>

NextPersist ==
    \/ TickPersist
    \/ SubmitPersist
    \/ TogglePersist
    \/ UndoPersist
    \/ InlineEditPersist
    \/ DialogEditPersist
    \/ DeletePersist
    \/ MarkDnfPersist
    \/ BeginManualSave
    \/ BeginAutoSave
    \/ FinishSave

PersistSpec == InitPersist /\ [][NextPersist]_vars

\* ------------------------------------------------ closing and restarting

\* A day of the clock.
Day == 24 * 60 * 60 * TicksPerSecond

\* The clock readings of TripSpec: the first readings, and the starts of
\* the days after.
TripTimes == (0..MaxTripTime) \cup {d * Day : d \in 1..MaxTripDays}

\* Saves and restarts go on in TripSpec until there are more than
\* MaxTripBackups backup files.
FewBackups == Cardinality(DOMAIN disk.backups) <= MaxTripBackups

\* Return pressed in the input field, with an id of the roster (TripSpec).
SubmitTrip ==
    /\ Dispatch
    /\ next_id <= MaxPersistEntries
    /\ Apply(process_entry(Window, <<"1">>, now))
    /\ UNCHANGED <<now, workbook, persistence>>

\* Time passes, a tick or a day (TripSpec).
TickTrip ==
    /\ \E t \in TripTimes : t > now /\ now' = t
    /\ UNCHANGED <<categories, last_entries, tables, next_id, workbook, persistence>>

\* Ctrl+S: the whole of save_session.
SaveTrip ==
    /\ Dispatch
    /\ FewBackups
    /\ \E env \in Environments : ApplyApp(save_session(App, now, env))
    /\ UNCHANGED <<now, workbook, duration>>

\* A text that is no duration.
NoDuration == <<"x">>

\* What can happen to a session file that loads: it is cut short, it loses
\* a key, or a duration text of a Timer or of an entry is spoilt.
damaged(data) ==
    {Truncated, JsonFile(Without(data, "categories"))}
    \cup {JsonFile([data EXCEPT !.categories[k] = Without(@, "timer")]) :
              k \in 1..Len(data.categories)}
    \cup {JsonFile([data EXCEPT
                       !.categories[k].timer.accumulated_pause_duration =
                           NoDuration]) :
              k \in 1..Len(data.categories)}
    \cup UNION {{JsonFile([data EXCEPT
                              !.categories[k].entries[p].elapsed_time =
                                  NoDuration]) :
                     p \in 1..Len(data.categories[k].entries)} :
                 k \in 1..Len(data.categories)}

\* Whether a file is as Session.save wrote it.
whole(content) ==
    /\ content.readable
    /\ "categories" \in Keys(content.data)
    /\ \A k \in 1..Len(content.data.categories) :
           LET c == content.data.categories[k]
           IN  /\ "timer" \in Keys(c)
               /\ c.timer.accumulated_pause_duration # NoDuration
               /\ \A p \in 1..Len(c.entries) :
                      c.entries[p].elapsed_time # NoDuration

\* Something outside the program spoils a session file that is as it was
\* written; the file is modified at that time.
Damage ==
    /\ \E f \in DOMAIN disk.sessions :
           /\ whole(disk.sessions[f].content)
           /\ \E content \in damaged(disk.sessions[f].content.data) :
                  disk' = [disk EXCEPT !.sessions[f] = File(now, content)]
    /\ UNCHANGED <<now, categories, last_entries, tables, next_id, workbook,
                   session_name, created_at, save_pc, report, duration>>

\* The window is closed (closeEvent saves through auto_save when there is
\* a Category) or its process is killed, and the program is started again:
\* the operator is asked whether to resume the latest session file.
Restart ==
    /\ event_loop_idle(save_pc)
    /\ FewBackups
    /\ \E env \in Environments, killed, yes, csv_ok \in BOOLEAN :
           \E closed \in {IF killed \/ report = CRASHED \/ categories = <<>>
                          THEN App
                          ELSE auto_save(App, now, env)} :
               \E latest \in IF get_latest_session(closed.disk) = {} THEN {None}
                             ELSE {Some(f) : f \in get_latest_session(closed.disk)} :
                   \E started \in {prompt_load_last_session(
                                      closed.disk, next_id, latest, yes,
                                      csv_ok, now)} :
                       ApplyApp(started)
    /\ UNCHANGED <<now, workbook, duration>>

NextTrip ==
    \/ TickTrip
    \/ SubmitTrip
    \/ TogglePersist
    \/ SaveTrip
    \/ Damage
    \/ Restart

TripSpec == InitPersist /\ [][NextTrip]_vars

\* ------------------------------------------------- the auto-save timer

\* The start of the clock second after clk.
next_second(clk) == clk + TicksPerSecond - (clk % TicksPerSecond)

\* There is time left for one more tick of the auto-save timer.
BeforeLastAutoSave == next_second(now) <= MaxLiveTime

\* Time passes, as long as the auto-save timer can tick once more after it
\* (LiveSpec).
TickLive ==
    /\ next_second(now + 1) <= MaxLiveTime
    /\ now' = now + 1
    /\ UNCHANGED <<categories, last_entries, tables, next_id, workbook, persistence>>

\* Return pressed in the input field (LiveSpec).
SubmitLive == BeforeLastAutoSave /\ SubmitTrip

\* The Start/Stop button (LiveSpec).
ToggleLive == BeforeLastAutoSave /\ TogglePersist

\* Ctrl+Z (LiveSpec).
UndoLive == BeforeLastAutoSave /\ UndoPersist

\* Ctrl+S: the whole of save_session, nothing failing but a rename onto an
\* existing backup where the platform refuses it.
ManualSaveLive ==
    /\ BeforeLastAutoSave
    /\ Dispatch
    /\ \E os \in Platforms :
           \E saved \in {save_session(App, now, [os |-> os, fault |-> "none"])} :
               ApplyApp(saved)
    /\ UNCHANGED <<now, workbook, duration>>

\* The auto-save timer fires, in a later clock second than the events
\* before it: the whole of auto_save, with no I/O failure.
AutoSaveLive ==
    /\ BeforeLastAutoSave
    /\ Dispatch
    /\ now' = next_second(now)
    /\ \E os \in Platforms :
           \E saved \in {auto_save(App, next_second(now),
                                   [os |-> os, fault |-> "none"])} :
               ApplyApp(saved)
    /\ UNCHANGED <<workbook, duration>>

NextLive ==
    \/ TickLive
    \/ SubmitLive
    \/ ToggleLive
    \/ UndoLive
    \/ ManualSaveLive
    \/ AutoSaveLive

\* The QTimer of setup_auto_save fires again and again while the window is
\* open.
LiveSpec == InitPersist /\ [][NextLive]_vars /\ WF_vars(AutoSaveLive)

\* ----------------------------------------------------------- Timer claims

\* The one Timer of TimerSpec.
TheTimer == categories[1].timer

\* max(0, x)
Clamp(x) == IF x > 0 THEN x ELSE 0

\* The reference times a caller may supply to get_elapsed_time, and None
\* for the argument left out.
AtTimes == {None} \cup {Some(x) : x \in 0..MaxClock}

\* C2: the only state changes are NotStarted->Running and Paused->Running
\* (start), Running->Paused (pause), Running->Stopped (stop) and any
\* state->NotStarted (reset); start on Running or Stopped, and stop or pause
\* on anything but Running, leave the whole Timer as it was, so only reset
\* leaves Stopped.
C2_TimerTransitions ==
    LET t == TheTimer
    IN  /\ start(t, now).state =
               (IF t.state \in {NOT_STARTED, PAUSED} THEN RUNNING ELSE t.state)
        /\ pause(t, now).state =
               (IF t.state = RUNNING THEN PAUSED ELSE t.state)
        /\ stop(t, now).state =
               (IF t.state = RUNNING THEN STOPPED ELSE t.state)
        /\ reset(t).state = NOT_STARTED
        /\ t.state \in {RUNNING, STOPPED} => start(t, now) = t
        /\ t.state # RUNNING => stop(t, now) = t /\ pause(t, now) = t
        /\ t.state = STOPPED =>
               \A t2 \in {start(t, now), stop(t, now), pause(t, now)} :
                   t2.state = STOPPED

\* C2's case: a Timer that was paused and stopped later on, some time ago.
C2_Witness ==
    /\ TheTimer.state = STOPPED
    /\ TheTimer.accumulated_pause_duration > 0
    /\ now > TheTimer.stop_time[1]

\* C3: with a non-decreasing clock, get_elapsed_time() never decreases while
\* the Timer is Running, a pause and the resume after it included; it keeps
\* its value while the Timer stays Paused or stays Stopped; it is zero right
\* after reset.
C3_ElapsedMonotoneFrozenZero ==
    [][LET t == TheTimer
           t2 == categories'[1].timer
           e == get_elapsed_time(t, None, now)
           e2 == get_elapsed_time(t2, None, now')
       IN  /\ (t.state \in {RUNNING, PAUSED} /\ t2.state \in {RUNNING, PAUSED})
                  => e2 >= e
           /\ (t.state = t2.state /\ t.state \in {PAUSED, STOPPED}) => e2 = e
           /\ ResetTimer => e2 = 0
      ]_vars

\* C3's case: a Timer running again after a pause, with a reading above zero.
C3_Witness ==
    /\ TheTimer.state = RUNNING
    /\ TheTimer.accumulated_pause_duration > 0
    /\ get_elapsed_time(TheTimer, None, now) > 0

\* C4: get_elapsed_time is zero for a NotStarted Timer and otherwise
\* max(0, end_anchor - start_time - accumulated_pause_duration), the anchor
\* being at_time if supplied, else stop_time if Stopped, else pause_time if
\* Paused, else the clock; it is never negative.
C4_ElapsedFormula ==
    \A at \in AtTimes :
        LET t == TheTimer
            anchor == IF at # None THEN at[1]
                      ELSE IF t.state = STOPPED THEN t.stop_time[1]
                      ELSE IF t.state = PAUSED THEN t.pause_time[1]
                      ELSE now
            r == get_elapsed_time(t, at, now)
        IN  /\ r >= 0
            /\ t.state = NOT_STARTED => r = 0
            /\ t.state # NOT_STARTED =>
                   r = Clamp(anchor - t.start_time[1]
                                 - t.accumulated_pause_duration)

\* C4's case: a reference time earlier than start_time, clamped to zero.
C4_Witness ==
    /\ TheTimer.state # NOT_STARTED
    /\ \E x \in 0..MaxClock :
           /\ x < TheTimer.start_time[1]
           /\ get_elapsed_time(TheTimer, Some(x), now) = 0

\* ---------------------------------------------------------- submit claims

\* The indices of the Session's Categories.
Cats == 1..Len(categories)

\* The least element of a non-empty set of indices.
Least(S) == CHOOSE k \in S : \A j \in S : k <= j

\* The text without its leading and trailing blanks, said without a loop:
\* empty if every character is a blank, else from the first to the last
\* character that is not.
Trimmed(text) ==
    LET solid == {i \in 1..Len(text) : text[i] \notin Whitespace}
    IN  IF solid = {} THEN <<>>
        ELSE SubSeq(text, Least(solid),
                    CHOOSE k \in solid : \A j \in solid : k >= j)

\* The Categories whose roster holds the id.
Owners(id) == {k \in Cats : id \in DOMAIN categories[k].participants}

\* The Categories whose Timer is Running.
RunningCats == {k \in Cats : categories[k].timer.state = RUNNING}

\* What a Timer reads when asked without a reference time.
Reading(t) ==
    IF t.state = NOT_STARTED THEN 0
    ELSE IF t.state = PAUSED
    THEN Clamp(t.pause_time[1] - t.start_time[1] - t.accumulated_pause_duration)
    ELSE IF t.state = STOPPED
    THEN Clamp(t.stop_time[1] - t.start_time[1] - t.accumulated_pause_duration)
    ELSE Clamp(now - t.start_time[1] - t.accumulated_pause_duration)

\* A blank identity field: None or the empty string.
Blank(x) == x = None \/ x = Some("")

\* All five identity fields of the entry are blank.
BlankIdentity(e) ==
    /\ Blank(e.first_name)
    /\ Blank(e.last_name)
    /\ Blank(e.team)
    /\ Blank(e.birth_year)
    /\ Blank(e.gender)

\* In window state w exactly one entry more than now is in the ledgers: the
\* ledger of Category k holds its entries followed by one new entry, and
\* every other ledger, every Timer and every roster is as it is now.
OneAppendedTo(w, k) ==
    /\ Len(w.categories) = Len(categories)
    /\ Len(w.categories[k].entries) = Len(categories[k].entries) + 1
    /\ \A j \in Cats :
           w.categories[j] =
               [categories[j] EXCEPT !.entries =
                    IF j = k
                    THEN Append(@, w.categories[k].entries[Len(@) + 1])
                    ELSE @]

\* The entry appended last to the ledger of Category k in window state w.
Appended(w, k) == w.categories[k].entries[Len(w.categories[k].entries)]

\* C5: submitting an id that some roster holds appends the new entry to
\* the ledger of the first Category, in Session order, whose roster holds
\* it, with is_valid_id true and elapsed_time read from that Category's
\* Timer, whichever Timers are running.
C5_SubmitKnownIdGoesToOwner ==
    \A text \in RawInputs :
        Owners(Trimmed(text)) # {} =>
            LET k == Least(Owners(Trimmed(text)))
                w == process_entry(Window, text, now)
            IN  /\ OneAppendedTo(w, k)
                /\ Appended(w, k).participant_id = Trimmed(text)
                /\ Appended(w, k).category_name = categories[k].name
                /\ Appended(w, k).is_valid_id = TRUE
                /\ Appended(w, k).elapsed_time = Reading(categories[k].timer)

\* C5's case: an entry with a valid id was just recorded in a Category whose
\* Timer is not running while another Category's Timer is running, and its
\* elapsed_time is its own Category's reading, not the running one's.
C5_Witness ==
    \E a \in Cats, b \in Cats :
        /\ categories[a].timer.state = RUNNING
        /\ categories[b].timer.state # RUNNING
        /\ \E p \in 1..Len(categories[b].entries) :
               LET e == categories[b].entries[p]
               IN  /\ e.is_valid_id
                   /\ e.participant_id \in DOMAIN categories[b].participants
                   /\ e.finish_time = now
                   /\ e.elapsed_time = Reading(categories[b].timer)
                   /\ e.elapsed_time # Reading(categories[a].timer)

\* C6: submitting a non-empty id that no roster holds, with at least one
\* Category loaded, creates exactly one entry, with is_valid_id false and
\* blank identity fields, in the first Category whose Timer is Running, or
\* in the first Category if no Timer is Running.
C6_SubmitUnknownIdFallsBack ==
    \A text \in RawInputs :
        (Trimmed(text) # <<>> /\ Owners(Trimmed(text)) = {} /\ Cats # {}) =>
            LET k == IF RunningCats # {} THEN Least(RunningCats) ELSE 1
                w == process_entry(Window, text, now)
            IN  /\ OneAppendedTo(w, k)
                /\ Appended(w, k).participant_id = Trimmed(text)
                /\ Appended(w, k).is_valid_id = FALSE
                /\ BlankIdentity(Appended(w, k))

\* C6's case: an invalid entry was just recorded in the second Category,
\* the first one whose Timer is running.
C6_Witness ==
    /\ Len(categories) >= 2
    /\ categories[1].timer.state # RUNNING
    /\ categories[2].timer.state = RUNNING
    /\ \E p \in 1..Len(categories[2].entries) :
           LET e == categories[2].entries[p]
           IN  /\ ~e.is_valid_id
               /\ BlankIdentity(e)
               /\ Owners(e.participant_id) = {}
               /\ e.finish_time = now

\* C7: a submit whose input is empty after trimming, or one made while no
\* Category is loaded, creates no entry and changes no ledger, no Timer and
\* not the undo stack.
C7_EmptySubmitChangesNothing ==
    \A text \in RawInputs :
        (Trimmed(text) = <<>> \/ Cats = {}) =>
            process_entry(Window, text, now) = Window

\* C7's case: blanks are typed while entries are in the ledgers and on the
\* undo stack, and the window is left as it is.
C7_Witness ==
    /\ last_entries # <<>>
    /\ \E k \in Cats : categories[k].entries # <<>>
    /\ \E text \in RawInputs :
           /\ text # <<>>
           /\ Trimmed(text) = <<>>
           /\ process_entry(Window, text, now) = Window

\* C8: a submit whose target Category's Timer is not Running still appends
\* exactly one entry, and its elapsed_time is zero for a NotStarted Timer,
\* the reading frozen at pause_time for a Paused one and the reading frozen
\* at stop_time for a Stopped one.
C8_SubmitOnIdleTimer ==
    \A text \in RawInputs :
        (Trimmed(text) # <<>> /\ Cats # {}) =>
            LET k == IF Owners(Trimmed(text)) # {}
                     THEN Least(Owners(Trimmed(text)))
                     ELSE IF RunningCats # {} THEN Least(RunningCats) ELSE 1
                t == categories[k].timer
                w == process_entry(Window, text, now)
            IN  t.state # RUNNING =>
                    /\ OneAppendedTo(w, k)
                    /\ t.state = NOT_STARTED => Appended(w, k).elapsed_time = 0
                    /\ t.state = PAUSED =>
                           Appended(w, k).elapsed_time =
                               Clamp(t.pause_time[1] - t.start_time[1]
                                         - t.accumulated_pause_duration)
                    /\ t.state = STOPPED =>
                           Appended(w, k).elapsed_time =
                               Clamp(t.stop_time[1] - t.start_time[1]
                                         - t.accumulated_pause_duration)

\* C8's case: an entry recorded after its Category's Timer was paused bears
\* the reading frozen at the pause, not the time since the start.
C8_Witness ==
    \E k \in Cats :
        LET t == categories[k].timer
        IN  /\ t.state = PAUSED
            /\ \E p \in 1..Len(categories[k].entries) :
                   LET e == categories[k].entries[p]
                   IN  /\ e.finish_time > t.pause_time[1]
                       /\ e.elapsed_time = t.pause_time[1] - t.start_time[1]
                                               - t.accumulated_pause_duration
                       /\ e.elapsed_time # e.finish_time - t.start_time[1]
                                               - t.accumulated_pause_duration

\* ---------------------------------------------------------- ledger claims

\* C1: every entry in a Category's ledger bears that Category's name in its
\* category_name, also after an edit moved it from another ledger.
C1_LedgerEntriesBearCategoryName ==
    \A k \in Cats :
        \A p \in 1..Len(categories[k].entries) :
            categories[k].entries[p].category_name = categories[k].name

\* C1's case: an entry recorded in one Category (as its undo record says)
\* is now in the ledger of a Category with another name.
C1_Witness ==
    \E r \in 1..Len(last_entries) :
        \E k \in Cats :
            /\ categories[k].name # categories[last_entries[r][2]].name
            /\ \E p \in 1..Len(categories[k].entries) :
                   categories[k].entries[p].entry_id = last_entries[r][1]

\* The Categories whose ledger holds an entry with the id, in window state w.
HoldersOf(w, entry_id) ==
    {k \in 1..Len(w.categories) :
        \E p \in 1..Len(w.categories[k].entries) :
            w.categories[k].entries[p].entry_id = entry_id}

\* C9: an undo removes exactly the most recently created entry from the
\* ledgers and pops its record from the undo stack; every other entry, with
\* all its fields, and every Timer stay as they are. Undo with an empty
\* stack changes nothing.
C9_UndoRemovesLastEntryOnly ==
    [][Undo =>
        IF last_entries = <<>> THEN UNCHANGED vars
        ELSE LET entry_id == last_entries[Len(last_entries)][1]
             IN  /\ \A r \in 1..Len(last_entries) : last_entries[r][1] <= entry_id
                 /\ last_entries' = SubSeq(last_entries, 1, Len(last_entries) - 1)
                 /\ categories' =
                        [k \in Cats |->
                            [categories[k] EXCEPT !.entries =
                                SelectSeq(@, LAMBDA e : e.entry_id # entry_id)]]
    ]_vars

\* C10: after an undo the popped entry is in no Category's ledger, also
\* when an edit re-bound it to another Category since it was created.
C10_UndoneEntryInNoLedger ==
    [][(Undo /\ last_entries # <<>>) =>
        HoldersOf([categories |-> categories'],
                  last_entries[Len(last_entries)][1]) = {}
    ]_vars

\* ------------------------------------------------------ undo stack claims

\* The entry ids in the ledgers of window state w.
LedgerIds(w) ==
    UNION {{w.categories[k].entries[p].entry_id :
                p \in 1..Len(w.categories[k].entries)} :
           k \in 1..Len(w.categories)}

\* The ids of the undo records of window state w, oldest first.
StackIds(w) == [r \in 1..Len(w.last_entries) |-> w.last_entries[r][1]]

RECURSIVE SubmitTimes(_, _, _)
\* Window state w after n submissions of the text.
SubmitTimes(w, text, n) ==
    IF n = 0 THEN w
    ELSE SubmitTimes(process_entry(w, text, now), text, n - 1)

RECURSIVE UndoTimes(_, _)
\* Window state w after n presses of Undo.
UndoTimes(w, n) ==
    IF n = 0 THEN w ELSE UndoTimes(undo_last_entry(w), n - 1)

\* C11: the undo stack never holds more than 10 records; its records are the
\* most recently submitted entries that are not undone, in submission order
\* (with submissions and undos only: the last entries of the ledgers, by
\* creation); and 11 submissions followed by 11 presses of Undo leave
\* exactly the first submitted entry in the ledgers and an empty stack.
C11_UndoStackBounded ==
    /\ Len(last_entries) <= 10
    /\ \A r \in 1..Len(last_entries) - 1 :
           last_entries[r][1] < last_entries[r + 1][1]
    /\ \A r \in 1..Len(last_entries) :
           /\ last_entries[r][1] \in LedgerIds(Window)
           /\ \A id \in LedgerIds(Window) :
                  id > last_entries[r][1] =>
                      \E q \in r + 1..Len(last_entries) : last_entries[q][1] = id
    /\ (LedgerIds(Window) = {} /\ last_entries = <<>>) =>
           \A text \in UndoInputs :
               LET w11 == SubmitTimes(Window, text, 11)
                   w == UndoTimes(w11, 11)
               IN  /\ StackIds(w11) = [r \in 1..10 |-> next_id + r]
                   /\ LedgerIds(w11) = next_id..next_id + 10
                   /\ LedgerIds(w) = {next_id}
                   /\ w.last_entries = <<>>

\* C11's case: 11 entries were submitted and the record of the first one
\* has been dropped from the full stack.
C11_Witness ==
    /\ next_id = 12
    /\ Len(last_entries) = 10
    /\ last_entries[1][1] = 2
    /\ 1 \in LedgerIds(Window)

\* ------------------------------------------------------------ edit claims

\* The entry with None in place of every empty identity field, so that the
\* two ways of writing a blank field compare equal.
Unblank(e) ==
    [e EXCEPT !.first_name = IF Blank(@) THEN None ELSE @,
              !.last_name = IF Blank(@) THEN None ELSE @,
              !.team = IF Blank(@) THEN None ELSE @,
              !.birth_year = IF Blank(@) THEN None ELSE @,
              !.gender = IF Blank(@) THEN None ELSE @]

\* Window state w has the ledgers of the current state: the same entries
\* at the same positions with the same fields (up to how a blank is
\* written), and the same Timers and rosters.
SameLedgers(w) ==
    /\ Len(w.categories) = Len(categories)
    /\ \A k \in Cats :
           /\ w.categories[k].name = categories[k].name
           /\ w.categories[k].timer = categories[k].timer
           /\ w.categories[k].participants = categories[k].participants
           /\ Len(w.categories[k].entries) = Len(categories[k].entries)
           /\ \A p \in 1..Len(categories[k].entries) :
                  Unblank(w.categories[k].entries[p]) =
                      Unblank(categories[k].entries[p])

\* The widgets whose table has a row for the entry id.
ShownIn(entry_id) ==
    {i \in Cats : \E r \in 1..Len(tables[i]) : tables[i][r] = entry_id}

\* C12: editing an entry to its current participant_id changes nothing,
\* through the inline edit and through the edit dialog: every field, the
\* entry's ledger and position and all other entries stay as they are, also
\* when Categories were loaded after the entry was created.
C12_SameIdEditChangesNothing ==
    \A k \in Cats :
        \A p \in 1..Len(categories[k].entries) :
            LET e == categories[k].entries[p]
            IN  /\ SameLedgers(on_recent_entry_item_changed(
                                   Window, e.entry_id, e.participant_id))
                /\ \A i \in ShownIn(e.entry_id) :
                       SameLedgers(edit_entry(Window, e.entry_id,
                                              categories[i].name, TRUE,
                                              e.participant_id))

\* The entry e re-bound to new_id as found in the roster of Category f.
Rebound(e, new_id, f) ==
    LET data == categories[f].participants[new_id]
    IN  [e EXCEPT !.participant_id = new_id,
                  !.category_name = categories[f].name,
                  !.is_valid_id = TRUE,
                  !.first_name = Some(data.first_name),
                  !.last_name = Some(data.last_name),
                  !.team = Some(data.team),
                  !.birth_year = Some(data.birth_year),
                  !.gender = Some(data.gender)]

\* In window state w the entry at position p of Category k's ledger has
\* left that ledger and is, re-bound to new_id, the last entry of Category
\* f's ledger; it is in no other ledger, and no other entry has changed.
MovedTo(w, k, p, new_id, f) ==
    LET e == categories[k].entries[p]
    IN  /\ Len(w.categories) = Len(categories)
        /\ HoldersOf(w, e.entry_id) = {f}
        /\ \A j \in Cats :
               w.categories[j] =
                   [categories[j] EXCEPT !.entries =
                        IF j = k
                        THEN SubSeq(@, 1, p - 1) \o SubSeq(@, p + 1, Len(@))
                        ELSE IF j = f
                        THEN Append(@, Rebound(e, new_id, f))
                        ELSE @]

\* C13: editing an entry's participant_id to a value whose first roster
\* match is a Category other than the one whose ledger holds the entry
\* removes the entry from the old ledger, gives it the matching Category's
\* name, is_valid_id true and the identity of that roster, and appends it
\* to the matching Category's ledger, so that it is in exactly that ledger.
C13_EditMovesToMatchingCategory ==
    \A k \in Cats :
        \A p \in 1..Len(categories[k].entries) :
            \A text \in RawInputs :
                LET e == categories[k].entries[p]
                    new_id == Trimmed(text)
                IN  (/\ new_id # <<>>
                     /\ new_id # e.participant_id
                     /\ Owners(new_id) # {}
                     /\ Least(Owners(new_id)) # k) =>
                        /\ MovedTo(on_recent_entry_item_changed(
                                       Window, e.entry_id, text),
                                   k, p, new_id, Least(Owners(new_id)))
                        /\ \A i \in ShownIn(e.entry_id) :
                               i = k =>
                                   MovedTo(edit_entry(Window, e.entry_id,
                                                      categories[i].name,
                                                      TRUE, text),
                                           k, p, new_id,
                                           Least(Owners(new_id)))

\* In window state w the entry at position p of Category k's ledger is
\* where it was, with the new id, is_valid_id false, blank identity fields
\* and every other field as before; nothing else has changed.
InvalidatedInPlace(w, k, p, new_id) ==
    /\ Len(w.categories) = Len(categories)
    /\ \A j \in Cats :
           /\ Len(w.categories[j].entries) = Len(categories[j].entries)
           /\ [w.categories[j] EXCEPT !.entries = <<>>] =
                  [categories[j] EXCEPT !.entries = <<>>]
           /\ \A q \in 1..Len(categories[j].entries) :
                  IF j = k /\ q = p
                  THEN /\ BlankIdentity(w.categories[j].entries[q])
                       /\ Unblank(w.categories[j].entries[q]) =
                              Unblank([categories[j].entries[q] EXCEPT
                                           !.participant_id = new_id,
                                           !.is_valid_id = FALSE,
                                           !.first_name = None,
                                           !.last_name = None,
                                           !.team = None,
                                           !.birth_year = None,
                                           !.gender = None])
                  ELSE w.categories[j].entries[q] = categories[j].entries[q]

\* C14: editing an entry's participant_id to a non-empty value that no
\* roster holds sets is_valid_id false, blanks the five identity fields and
\* leaves the entry in its ledger at its position with its category_name,
\* through both edit paths.
C14_EditToUnknownIdInvalidates ==
    \A k \in Cats :
        \A p \in 1..Len(categories[k].entries) :
            \A text \in RawInputs :
                LET e == categories[k].entries[p]
                    new_id == Trimmed(text)
                IN  (new_id # <<>> /\ Owners(new_id) = {}) =>
                        /\ InvalidatedInPlace(
                               on_recent_entry_item_changed(
                                   Window, e.entry_id, text),
                               k, p, new_id)
                        /\ \A i \in ShownIn(e.entry_id) :
                               i = k =>
                                   InvalidatedInPlace(
                                       edit_entry(Window, e.entry_id,
                                                  categories[i].name,
                                                  TRUE, text),
                                       k, p, new_id)

\* C14's case: an entry has been edited to an id of no roster: it is
\* invalid, its identity fields are the empty strings the edit wrote, and
\* it is in the ledger it was recorded in, under that Category's name.
C14_Witness ==
    \E r \in 1..Len(last_entries) :
        LET k == last_entries[r][2]
        IN  \E p \in 1..Len(categories[k].entries) :
                LET e == categories[k].entries[p]
                IN  /\ e.entry_id = last_entries[r][1]
                    /\ ~e.is_valid_id
                    /\ Owners(e.participant_id) = {}
                    /\ e.first_name = Some("")
                    /\ e.gender = Some("")
                    /\ e.category_name = categories[k].name

\* ----------------------------------------------------------- frame claims

\* The entry with the id in the ledgers of window state w.
EntryOf(w, entry_id) ==
    LET k == CHOOSE k \in HoldersOf(w, entry_id) : TRUE
        p == CHOOSE p \in 1..Len(w.categories[k].entries) :
                 w.categories[k].entries[p].entry_id = entry_id
    IN  w.categories[k].entries[p]

\* C15: an entry keeps the entry_id, finish_time and elapsed_time it was
\* created with for as long as it is in a ledger: no edit (with or without
\* a move), DNF mark, undo or delete of another entry, or Timer operation
\* changes them.
C15_TimesKeptFromCreation ==
    [][\A entry_id \in LedgerIds(Window) :
           LET after == [categories |-> categories']
           IN  entry_id \in LedgerIds(after) =>
                   /\ Cardinality(HoldersOf(after, entry_id)) = 1
                   /\ EntryOf(after, entry_id).finish_time =
                          EntryOf(Window, entry_id).finish_time
                   /\ EntryOf(after, entry_id).elapsed_time =
                          EntryOf(Window, entry_id).elapsed_time
    ]_vars

\* C15's case: an entry recorded with a non-zero elapsed time has been
\* moved by an edit to a Category whose Timer reads something else for the
\* entry's finish time, and bears a DNF mark.
C15_Witness ==
    \E r \in 1..Len(last_entries) :
        \E k \in Cats :
            /\ k # last_entries[r][2]
            /\ \E p \in 1..Len(categories[k].entries) :
                   LET e == categories[k].entries[p]
                   IN  /\ e.entry_id = last_entries[r][1]
                       /\ e.is_dnf
                       /\ e.elapsed_time > 0
                       /\ e.elapsed_time #
                              get_elapsed_time(categories[k].timer,
                                               Some(e.finish_time), now)

\* The number of entries of the ledger that bear no DNF mark.
Finished(entries) ==
    Cardinality({p \in 1..Len(entries) : ~entries[p].is_dnf})

\* C16: marking an entry DNF from a row of a Category's table sets is_dnf
\* in place: the entry stays in that ledger at its position, the ledger's
\* length and every other field of every entry are unchanged, and the
\* Category's finished count drops by exactly one the first time (by none
\* when the entry already bears the mark); and no later step other than the
\* entry's removal, an edit in particular, clears the mark.
C16_DnfMarkedInPlace ==
    /\ [](\A i \in Cats :
              \A r \in 1..Len(tables[i]) :
                  LET w == mark_dnf(Window, i, tables[i][r])
                  IN  \E p \in 1..Len(categories[i].entries) :
                          /\ categories[i].entries[p].entry_id = tables[i][r]
                          /\ w.categories =
                                 [categories EXCEPT
                                      ![i].entries[p].is_dnf = TRUE]
                          /\ get_finished_count(w.categories[i]) =
                                 Finished(categories[i].entries) -
                                     (IF categories[i].entries[p].is_dnf
                                      THEN 0 ELSE 1))
    /\ [][\A entry_id \in LedgerIds(Window) :
              (/\ entry_id \in LedgerIds([categories |-> categories'])
               /\ EntryOf(Window, entry_id).is_dnf) =>
                  EntryOf([categories |-> categories'], entry_id).is_dnf
       ]_vars

\* C16's case: an entry that bears a DNF mark has since been edited to
\* another Category, and an entry without the mark is in a ledger.
C16_Witness ==
    \E r \in 1..Len(last_entries) :
        \E k \in Cats :
            /\ k # last_entries[r][2]
            /\ \E p \in 1..Len(categories[k].entries) :
                   /\ categories[k].entries[p].entry_id = last_entries[r][1]
                   /\ categories[k].entries[p].is_dnf
            /\ \E j \in Cats :
                   \E q \in 1..Len(categories[j].entries) :
                       ~categories[j].entries[q].is_dnf

\* ---------------------------------------------------------- export claims

\* The positions of Category k's ledger whose entries bear no DNF mark.
FinishedAt(k) ==
    {p \in 1..Len(categories[k].entries) : ~categories[k].entries[p].is_dnf}

\* The rank of the non-DNF entry at position p of Category k's ledger: one
\* more than the number of non-DNF entries of that ledger with a smaller
\* elapsed_time, or with the same one and an earlier position.
RankIn(k, p) ==
    LET e == categories[k].entries
    IN  1 + Cardinality({q \in FinishedAt(k) :
                            \/ e[q].elapsed_time < e[p].elapsed_time
                            \/ e[q].elapsed_time = e[p].elapsed_time /\ q < p})

\* The rows of the sheet that were built from the entry.
RowsOf(sheet, entry_id) ==
    {r \in 1..Len(sheet) : sheet[r].entry_id = entry_id}

\* C17: in a Category's sheet the entries without a DNF mark come first,
\* ascending by elapsed_time with ties in ledger order, and their ranks are
\* their positions among themselves, 1, 2, ..., k without gaps; the DNF
\* entries follow, labelled DNF. This for every mix of marks and times.
C17_CategoryRanksHaveNoGaps ==
    \A k \in Cats :
        LET sheet == _create_category_dataframe(categories[k])
            e == categories[k].entries
        IN  /\ Len(sheet) = Len(e)
            /\ \A p \in 1..Len(e) :
                   IF e[p].is_dnf
                   THEN \E r \in RowsOf(sheet, e[p].entry_id) :
                            /\ r > Cardinality(FinishedAt(k))
                            /\ sheet[r].Rank = RankLabel("DNF")
                   ELSE /\ sheet[RankIn(k, p)].entry_id = e[p].entry_id
                        /\ sheet[RankIn(k, p)].Rank = RankNumber(RankIn(k, p))

\* C18: in the combined sheet every entry of every Category appears exactly
\* once, the rows are ordered by elapsed time, and every DNF entry comes
\* after every entry without the mark.
C18_CombinedOrderedDnfLast ==
    \A sheet \in _create_combined_dataframe(categories) :
        /\ \A entry_id \in LedgerIds(Window) :
               Cardinality(RowsOf(sheet, entry_id)) = 1
        /\ \A r \in 1..Len(sheet) : sheet[r].entry_id \in LedgerIds(Window)
        /\ \A r \in 1..Len(sheet) :
               \A q \in r + 1..Len(sheet) :
                   LET first == EntryOf(Window, sheet[r].entry_id)
                       later == EntryOf(Window, sheet[q].entry_id)
                   IN  /\ ~(first.is_dnf /\ ~later.is_dnf)
                       /\ first.is_dnf = later.is_dnf =>
                              first.elapsed_time <= later.elapsed_time

\* C19: the rank an entry has in the combined sheet is the rank it has in
\* its own Category's sheet: the same number for an entry without a DNF
\* mark, the label DNF for one with the mark.
C19_CombinedRankIsCategoryRank ==
    \A k \in Cats :
        \A p \in 1..Len(categories[k].entries) :
            LET entry_id == categories[k].entries[p].entry_id
                own == _create_category_dataframe(categories[k])
            IN  \A sheet \in _create_combined_dataframe(categories) :
                    \A r \in RowsOf(sheet, entry_id) :
                        \A q \in RowsOf(own, entry_id) :
                            sheet[r].Rank = own[q].Rank

\* ------------------------------------------------------------ delete claim

IdentityOf(e, record) ==
    /\ e.first_name = Some(record.first_name)
    /\ e.last_name = Some(record.last_name)
    /\ e.team = Some(record.team)
    /\ e.birth_year = Some(record.birth_year)
    /\ e.gender = Some(record.gender)

\* C21: an entry with is_valid_id false has blank first_name, last_name,
\* team, birth_year and gender; an entry with is_valid_id true has its
\* participant_id in the roster of the Category whose ledger holds it, and
\* its identity fields are those of that roster record.
C21_IdentityMatchesRoster ==
    \A k \in Cats :
        \A p \in 1..Len(categories[k].entries) :
            LET e == categories[k].entries[p]
            IN  IF e.is_valid_id
                THEN /\ e.participant_id \in DOMAIN categories[k].participants
                     /\ IdentityOf(e, categories[k].participants[e.participant_id])
                ELSE BlankIdentity(e)

\* ----------------------------------------------------------- name claim

\* C23: whatever Categories were loaded, no two Categories of the Session
\* bear the same name.
C23_CategoriesUniquelyNamed ==
    \A i, j \in Cats : i # j => categories[i].name # categories[j].name

\* ---------------------------------------------------------- order claim

\* C22: every Category's ledger lists its entries in submission order,
\* that is in non-decreasing finish_time, also after an edit has moved an
\* entry from one Category's ledger to another's.
C22_LedgerInSubmissionOrder ==
    \A k \in Cats :
        \A p, q \in 1..Len(categories[k].entries) :
            p < q => categories[k].entries[p].finish_time
                         <= categories[k].entries[q].finish_time

\* ------------------------------------------------------- entry id claim

\* No two places in the ledgers of window state w hold the same entry_id.
UniqueIds(w) ==
    \A k1, k2 \in 1..Len(w.categories) :
        \A p1 \in 1..Len(w.categories[k1].entries) :
            \A p2 \in 1..Len(w.categories[k2].entries) :
                w.categories[k1].entries[p1].entry_id
                    = w.categories[k2].entries[p2].entry_id
                => k1 = k2 /\ p1 = p2

\* C30: every entry_id occurs at most once across all the ledgers, and an
\* edit, inline or through the dialog, with or without a move to another
\* Category, leaves the set of entry_ids in the ledgers as it was and
\* duplicates none.
C30_EntryIdsUniqueAndKeptByEdits ==
    /\ UniqueIds(Window)
    /\ \A entry_id \in recent_entry_ids(categories), text \in RawInputs :
           LET w == on_recent_entry_item_changed(Window, entry_id, text)
           IN  LedgerIds(w) = LedgerIds(Window) /\ UniqueIds(w)
    /\ \A i \in Cats :
           \A r \in 1..Len(tables[i]), text \in RawInputs :
               LET w == edit_entry(Window, tables[i][r], categories[i].name,
                                   TRUE, text)
               IN  LedgerIds(w) = LedgerIds(Window) /\ UniqueIds(w)

\* An edit has moved an entry: the undo record of an entry names another
\* Category than the one whose ledger holds the entry now, while a second
\* entry is in the ledgers.
C30_Witness ==
    /\ \E r \in 1..Len(last_entries) :
           /\ HoldersOf(Window, last_entries[r][1]) # {}
           /\ last_entries[r][2] \notin HoldersOf(Window, last_entries[r][1])
    /\ Cardinality(LedgerIds(Window)) = 2

\* ------------------------------------------------------- duration claim

\* C25: every non-negative duration, of 24 hours or more and with a
\* microsecond part included, written as text the way elapsed_time and
\* accumulated_pause_duration are written and read back the way they are
\* read, comes back as the same duration; reading never fails on a text
\* that writing produced.
C25_DurationRoundTrip ==
    duration # None =>
        /\ parse_elapsed_time(str_timedelta(duration.value))
               = Some(duration.value)
        /\ parse_accumulated_pause_duration(str_timedelta(duration.value))
               = Some(duration.value)

\* ------------------------------------------------------------ save claims

\* What the readable files of the sessions and backups directories hold.
Contents(files) ==
    {files.sessions[f].content.data :
        f \in {g \in DOMAIN files.sessions : files.sessions[g].content.readable}}
    \cup
    {files.backups[f].content.data :
        f \in {g \in DOMAIN files.backups : files.backups[g].content.readable}}

\* C26: saving destroys nothing: whatever manual and automatic saves
\* follow one another, two within the same clock second included, what an
\* earlier save wrote is in the session file or in a backup file after
\* every step.
C26_SavesKeepEarlierContent ==
    [][\A data \in Contents(disk) : data \in Contents(disk')]_vars

\* Whether Session.save raises for the window a under env.
SaveRaises(a, env) ==
    LET b == Session_save_backup(a.session_name, a.disk, now, env)
    IN  \/ b.raised
        \/ Session_save_write(b.session_name, a.created_at, a.categories,
                              b.disk, now, env).raised

\* C27: an auto-save, failing or not, leaves the ledgers, the Timers and
\* the undo stack as they are and the window able to handle the next
\* event, auto-save ticks included; a failure is only written to the
\* console.
C27_FailingAutoSaveIsSwallowed ==
    Dispatch =>
        \A env \in Environments :
            LET after == auto_save(App, now, env)
            IN  /\ after.categories = categories
                /\ after.last_entries = last_entries
                /\ after.tables = tables
                /\ after.next_id = next_id
                /\ after.save_pc = <<>>
                /\ after.report # CRASHED
                /\ SaveRaises(App, env) => after.report = AUTO_SAVE_FAILED

\* An auto-save has failed with an entry on the undo stack, and the window
\* is handling events.
C27_Witness ==
    /\ report = AUTO_SAVE_FAILED
    /\ save_pc = <<>>
    /\ last_entries # <<>>
    /\ \E k \in 1..Len(categories) : categories[k].entries # <<>>

\* C29: at most one save is in flight; while one is, between its rename
\* and its write, no ledger, Timer or undo stack changes and no other save
\* starts; the file it writes is the Session as it was at the rename.
C29_SavesNeverOverlap ==
    [][/\ Len(save_pc) <= 1
       /\ Len(save_pc') <= 1
       /\ save_pc # <<>> =>
             /\ UNCHANGED <<categories, last_entries, tables, next_id,
                            session_name, created_at>>
             /\ save_pc' # <<>> => UNCHANGED <<save_pc, disk>>
             /\ save_pc' = <<>> =>
                   /\ disk'.backups = disk.backups
                   /\ \A f \in DOMAIN disk'.sessions :
                         \/ /\ f \in DOMAIN disk.sessions
                            /\ disk'.sessions[f] = disk.sessions[f]
                         \/ /\ f = session_name[1]
                            /\ disk'.sessions[f].content \in
                                  {Truncated,
                                   JsonFile(Session_to_dict(session_name,
                                                            created_at,
                                                            categories, now))}]_vars

\* An auto-save is between its rename, which has moved a file to the
\* backups, and its write, in a session with an entry.
C29_Witness ==
    /\ save_pc = <<"auto">>
    /\ DOMAIN disk.backups # {}
    /\ session_name # None /\ session_name[1] \notin DOMAIN disk.sessions
    /\ last_entries # <<>>

\* C24: a save followed by a load gives back the Session: the Categories
\* by name and in order, each with its Timer (state, timestamps,
\* accumulated pause), its entries field by field and its roster, whatever
\* state is saved and whether or not the roster files still exist.
C24_SaveThenLoadGivesSessionBack ==
    (Dispatch /\ categories # <<>>) =>
        \A csv_ok \in BOOLEAN :
            LET saved == save_session(App, now, [os |-> "posix", fault |-> "none"])
                resumed == prompt_load_last_session(
                               saved.disk, next_id, Some(saved.session_name[1]),
                               TRUE, csv_ok, now)
            IN  /\ resumed.session_name = saved.session_name
                /\ resumed.categories = categories

\* Whether the load of a file fails: it cannot be read, a key is missing, a
\* roster file cannot be read, or the duration text of a Timer or of an
\* entry cannot be parsed.
Unloadable(content, csv_ok) ==
    \/ ~content.readable
    \/ ~({"session_name", "created_at", "categories"} \subseteq DOMAIN content.data)
    \/ \E k \in 1..Len(content.data.categories) :
           LET c == content.data.categories[k]
           IN  \/ ~csv_ok
               \/ ~({"name", "timer", "entries", "participants"} \subseteq DOMAIN c)
               \/ parse_accumulated_pause_duration(
                      c.timer.accumulated_pause_duration) = None
               \/ \E p \in 1..Len(c.entries) :
                      parse_elapsed_time(c.entries[p].elapsed_time) = None

\* C28: when the load of a session file fails, wherever it fails, the
\* Session in memory is as it was before the load: at startup, the new
\* Session without a Category, a widget or a name; the files are untouched
\* and the operator is told.
C28_FailedLoadLeavesSession ==
    \A f \in DOMAIN disk.sessions, csv_ok \in BOOLEAN :
        Unloadable(disk.sessions[f].content, csv_ok) =>
            LET started == prompt_load_last_session(disk, next_id, Some(f),
                                                    TRUE, csv_ok, now)
            IN  /\ started.categories = <<>>
                /\ started.tables = <<>>
                /\ started.last_entries = <<>>
                /\ started.session_name = None
                /\ started.created_at = now
                /\ started.disk = disk
                /\ started.report = LOAD_FAILED

\* The program was started, the load failed and the Session is empty; the
\* one session file on disk was modified before that start, and in it a
\* Category's Timer loads and an entry has a spoilt duration text.
C28_Witness ==
    /\ report = LOAD_FAILED
    /\ categories = <<>>
    /\ Cardinality(DOMAIN disk.sessions) = 1
    /\ \E f \in DOMAIN disk.sessions :
           LET content == disk.sessions[f].content
           IN  /\ disk.sessions[f].mtime < created_at
               /\ content.readable
               /\ "categories" \in DOMAIN content.data
               /\ \E k \in 1..Len(content.data.categories) :
                      /\ "timer" \in DOMAIN content.data.categories[k]
                      /\ \E p \in 1..Len(content.data.categories[k].entries) :
                             content.data.categories[k].entries[p].elapsed_time
                                 = NoDuration

\* ------------------------------------------------ pause accounting claims

\* C31: accumulated_pause_duration is the sum of the completed pauses since
\* the last reset: it starts at zero, a resume adds the length of the pause
\* it ends (now - pause_time) and clears pause_time, a reset sets it to
\* zero and nothing else changes it; the elapsed time read right after a
\* resume is the one that was frozen during the pause.
C31_PausesAddUp ==
    [][LET t == TheTimer
           t2 == categories'[1].timer
           resumed == t.state = PAUSED /\ t2.state = RUNNING
       IN  /\ resumed =>
                  /\ t2.accumulated_pause_duration =
                         t.accumulated_pause_duration + (now - t.pause_time[1])
                  /\ t2.pause_time = None
                  /\ get_elapsed_time(t2, None, now') =
                         get_elapsed_time(t, None, now)
           /\ t2.state = NOT_STARTED => t2.accumulated_pause_duration = 0
           /\ (~resumed /\ t2.state # NOT_STARTED) =>
                  t2.accumulated_pause_duration = t.accumulated_pause_duration
      ]_vars

\* C31's case: a pause is under way after an earlier pause was ended by a
\* resume some time after it began.
C31_Witness ==
    /\ TheTimer.state = PAUSED
    /\ TheTimer.accumulated_pause_duration > 0
    /\ TheTimer.pause_time[1] > TheTimer.start_time[1]
                                    + TheTimer.accumulated_pause_duration

\* C32: in every state a fresh Timer reaches by start, stop, pause and
\* reset, start_time is set exactly when the state is not NotStarted,
\* pause_time exactly when it is Paused, stop_time exactly when it is
\* Stopped, and accumulated_pause_duration is never negative and is zero in
\* NotStarted.
C32_TimerFieldsFollowState ==
    LET t == TheTimer
    IN  /\ (t.start_time # None) <=> (t.state # NOT_STARTED)
        /\ (t.pause_time # None) <=> (t.state = PAUSED)
        /\ (t.stop_time # None) <=> (t.state = STOPPED)
        /\ t.accumulated_pause_duration >= 0
        /\ t.state = NOT_STARTED => t.accumulated_pause_duration = 0

\* C32's case: a Timer that was paused, resumed and stopped has its
\* start_time and stop_time, no pause_time, and the pause on its account.
C32_Witness ==
    /\ TheTimer.state = STOPPED
    /\ TheTimer.start_time # None
    /\ TheTimer.stop_time # None
    /\ TheTimer.pause_time = None
    /\ TheTimer.accumulated_pause_duration > 0

\* ------------------------------------------------- undo record claims

\* The number of entries in all ledgers.
TotalEntries(cats) ==
    LET RECURSIVE sum(_)
        sum(k) == IF k = 0 THEN 0 ELSE Len(cats[k].entries) + sum(k - 1)
    IN  sum(Len(cats))

\* Every undo record's entry is in the ledger of the record's Category.
RecordsPointIntoLedgers(stack, cats) ==
    \A r \in 1..Len(stack) :
        \E p \in 1..Len(cats[stack[r][2]].entries) :
            cats[stack[r][2]].entries[p].entry_id = stack[r][1]

\* C33: every record on the undo stack refers to an entry that is in the
\* ledger of the Category it is paired with, after deletes and edits too,
\* so every undo with a non-empty stack takes exactly one entry out of the
\* ledgers.
C33_UndoRecordsPointIntoLedgers ==
    [][/\ RecordsPointIntoLedgers(last_entries', categories')
       /\ (Undo /\ last_entries # <<>>) =>
              TotalEntries(categories') = TotalEntries(categories) - 1
      ]_vars

\* --------------------------------------------------- participant id claims

\* C34: the participant_id of every entry in every ledger is a non-empty
\* text: a cell edit or an accepted edit dialog whose text is empty after
\* trimming leaves the window, the entry included, as it is (the submit
\* path is C7).
C34_ParticipantIdNeverEmpty ==
    /\ \A k \in Cats :
           \A p \in 1..Len(categories[k].entries) :
               categories[k].entries[p].participant_id # <<>>
    /\ \A text \in RawInputs :
           Trimmed(text) = <<>> =>
               \A k \in Cats :
                   \A p \in 1..Len(categories[k].entries) :
                       LET entry_id == categories[k].entries[p].entry_id
                       IN  /\ on_recent_entry_item_changed(Window, entry_id, text)
                                  = Window
                           /\ edit_entry(Window, entry_id, categories[k].name,
                                         TRUE, text) = Window

\* C34's case: an entry with an id of no roster is in a ledger, and blanks
\* typed into its cell or its dialog are turned down.
C34_Witness ==
    \E k \in Cats :
        \E p \in 1..Len(categories[k].entries) :
            LET e == categories[k].entries[p]
            IN  /\ ~e.is_valid_id
                /\ e.participant_id = <<"9">>
                /\ on_recent_entry_item_changed(Window, e.entry_id, <<" ">>) = Window
                /\ edit_entry(Window, e.entry_id, categories[k].name, TRUE, <<" ">>)
                       = Window

\* ------------------------------------------------- Category load claims

\* C35: loading one more Category leaves every Category there is, with its
\* ledger, its entries and its Timer, and the undo stack as they are; no
\* entry is looked up again, so an invalid entry stays invalid, blank and
\* where it is, also when the new roster has its participant_id.
C35_LoadLeavesEntriesAlone ==
    \A input \in LoadInputs :
        LET w == load_category(Window, input)
        IN  /\ Len(w.categories) = Len(categories) + 1
            /\ \A k \in Cats : w.categories[k] = categories[k]
            /\ \A k \in Cats : w.tables[k] = tables[k]
            /\ w.last_entries = last_entries

\* C35's case: an invalid entry with blank identity sits in the ledger of
\* its Category while a Category loaded later has its id in the roster.
C35_Witness ==
    \E k \in Cats :
        \E p \in 1..Len(categories[k].entries) :
            LET e == categories[k].entries[p]
            IN  /\ ~e.is_valid_id
                /\ BlankIdentity(e)
                /\ e.category_name = categories[k].name
                /\ \E j \in Cats :
                       /\ j > k
                       /\ e.participant_id \in DOMAIN categories[j].participants

\* C36: a Category is restored from its persisted record alone: where
\* Category.from_dict gives the Category back with the roster file in
\* place, it gives the same Category with the persisted roster, ledger and
\* Timer when the file named by csv_path is gone, does not parse or lacks
\* the id column.
C36_RestoreUsesPersistedDataOnly ==
    \A k \in Cats :
        LET data == Category_to_dict(categories[k])
        IN  Category_from_dict(data, TRUE) # None =>
                Category_from_dict(data, FALSE) = Some(categories[k])

\* ---------------------------------------------------- auto-save claims

\* The session file holds exactly the ledgers, Timers and rosters of the
\* Session.
Persisted ==
    /\ session_name # None
    /\ session_name[1] \in DOMAIN disk.sessions
    /\ disk.sessions[session_name[1]].content.readable
    /\ disk.sessions[session_name[1]].content.data.categories =
           [k \in Cats |-> Category_to_dict(categories[k])]

\* The entry with the id is in a ledger.
InLedger(entry_id) == entry_id \in LedgerIds(Window)

\* The entry with the id is in the session file.
InFile(entry_id) ==
    /\ session_name # None
    /\ session_name[1] \in DOMAIN disk.sessions
    /\ disk.sessions[session_name[1]].content.readable
    /\ LET saved == disk.sessions[session_name[1]].content.data.categories
       IN  \E k \in 1..Len(saved) :
               \E p \in 1..Len(saved[k].entries) :
                   saved[k].entries[p].entry_id = entry_id

\* C37: with the auto-save timer firing again and again and no I/O
\* failure, once the Session (which has a Category) stops changing, the
\* session file comes to hold exactly its ledgers and Timers and keeps
\* holding them; an entry that stays in a ledger gets into the file,
\* manual saves or not.
C37_AutoSaveCatchesUp ==
    /\ ([]<><<categories' # categories>>_vars) \/ <>[]Persisted
    /\ \A entry_id \in 1..MaxPersistEntries :
           InLedger(entry_id) ~> (InFile(entry_id) \/ ~InLedger(entry_id))

\* C37's case: an entry is in a ledger and in the session file although
\* nothing told the operator of a manual save.
C37_Witness ==
    /\ report # SAVED
    /\ report # SAVE_FAILED
    /\ \E entry_id \in 1..MaxPersistEntries :
           InLedger(entry_id) /\ InFile(entry_id)
    /\ Persisted

====
